---- MODULE Spec2Model ----
(***************************************************************************)
(* Model of the GameBlocker enforcement core: the schedule evaluator       *)
(* (scheduler/engine.rs, commands/schedule.rs) and the DNS filtering proxy *)
(* (blocking/network/dns_proxy.rs).                                        *)
(***************************************************************************)
EXTENDS Integers, Sequences, FiniteSets, TLC

(***************************************************************************)
(* Bounds of the model                                                     *)
(***************************************************************************)
\* longest schedule list the commands build
MaxSchedules == 2
\* longest question section, in bytes, of the enumerated raw packets
MaxBody == 4
\* most labels of an encoded query name
MaxLabels == 2
\* most lines of the hosts file before the first operation
MaxHostsLines == 3
\* most entries of a BlockedProcesses response
MaxProcesses == 2
\* most firewall operations in a run
MaxFwOps == 3
\* most firewall operations started while scripts run side by side
MaxParOps == 2

(***************************************************************************)
(* State                                                                   *)
(***************************************************************************)
VARIABLES
    schedules,      \* config.schedules: the stored, ordered schedule entries
    sched_ret,      \* outcome of the should_block_now command not yet delivered
    dns_call,       \* last call of a packet function and what it returned
    running,        \* DnsProxy.running
    blocked_domains,    \* DnsProxy.blocked_domains
    allowed_domains,    \* DnsProxy.allowed_domains
    blocked_readers,    \* read guards held on blocked_domains
    srv,            \* start(): position of the serve task and its result
    io,             \* the datagram being served and what was sent for it
    upd,            \* the policy update in progress
    stopped_early,  \* a stop() completed after the bind, before the flag was set
    hosts_file,     \* /etc/hosts: the lines an observer of the file sees
    hosts_op,       \* the write of the hosts file in progress
    hosts_log,      \* the last completed hosts operations, oldest first
    hosts_got,      \* result of get_blocked_domains not yet consumed
    ipc_stream,     \* the byte stream between write_message and read_message
    ipc_call,       \* the IPC call in progress and its outcome
    ipc_pipe,       \* frames written back to back and the reads made of them
    term,           \* the terminate_process call in progress
    fw,             \* the iptables and ip6tables filter tables
    fw_call,        \* the last firewall operation and what it returned
    fw_n,           \* firewall operations made so far
    fw_sh,          \* the sh processes running a firewall script side by side
    uninstall       \* the uninstall_with_password call in progress

schedVars == <<schedules, sched_ret>>

proxyVars == <<running, blocked_domains, allowed_domains, blocked_readers,
               srv, io, upd, stopped_early>>

hostsVars == <<hosts_file, hosts_op, hosts_log, hosts_got>>
ipcVars == <<ipc_stream, ipc_call, ipc_pipe>>
termVars == <<term>>
fwVars == <<fw, fw_call, fw_n, fw_sh>>
secVars == <<uninstall>>

vars == <<schedules, sched_ret, dns_call, running, blocked_domains,
          allowed_domains, blocked_readers, srv, io, upd, stopped_early,
          hosts_file,
          hosts_op, hosts_log, hosts_got, ipc_stream, ipc_call, ipc_pipe,
          term,
          fw, fw_call, fw_n, fw_sh, uninstall>>

(***************************************************************************)
(* DNS proxy: construction                                                 *)
(***************************************************************************)
\* domain names, as bytes: "a" and "b"
NameA == <<97>>
NameB == <<98>>

\* the policies the proxy is constructed with and updated to
Policies ==
    { [blocked |-> {NameA}, allowed |-> {NameA}],
      [blocked |-> {}, allowed |-> {}],
      [blocked |-> {NameA, NameB}, allowed |-> {}] }

\* no datagram has been received yet
NoIo == [stage |-> "none"]

\* no policy update is in progress
NoUpdate == [todo |-> {}]

\* DnsProxy::new(blocked, allowed)
ProxyNewWith(policy) ==
    /\ running = FALSE
    /\ blocked_domains = policy.blocked
    /\ allowed_domains = policy.allowed
    /\ blocked_readers = 0
    /\ srv = [pc |-> "new"]
    /\ io = NoIo
    /\ upd = NoUpdate
    /\ stopped_early = FALSE

ProxyNew == ProxyNewWith([blocked |-> {NameA}, allowed |-> {NameA}])

(***************************************************************************)
(* Hosts file: lines                                                       *)
(***************************************************************************)
\* a host name: base preceded by www copies of "www."
Dom(n, base) == [www |-> n, base |-> base]

\* MARKER_START and MARKER_END on a line, an empty line, and a line of
\* whitespace-separated parts
MarkerStartLine == [k |-> "start"]
MarkerEndLine == [k |-> "end"]
BlankLine == [k |-> "blank"]
Line(parts) == [k |-> "line", parts |-> parts]

LocalhostLine == Line(<<"127.0.0.1", Dom(0, "localhost")>>)
NoteLine == Line(<<"#note">>)

\* no hosts operation is running, none has run
NoHostsOp == [pc |-> "idle"]
NoGot == [kind |-> "none"]

\* an IPC stream nothing was written to, no call made
NoStream ==
    [head |-> <<>>, body |-> [kind |-> "junk", n |-> 0, json |-> [t |-> "null"]],
     rest |-> 0]
NoIpcCall == [pc |-> "idle"]
NoPipe == [frames |-> <<>>, next |-> 1, off |-> 0, reads |-> <<>>]
IpcUnused ==
    ipc_stream = NoStream /\ ipc_call = NoIpcCall /\ ipc_pipe = NoPipe

\* no terminate_process call made
NoTerm == [pc |-> "idle"]
TermUnused == term = NoTerm

\* no uninstall was asked for
NoUninstall == [pc |-> "idle"]
SecUnused == uninstall = NoUninstall

\* a firewall with the given OUTPUT chains, no managed chain, no
\* operation made
\* the two programs that run firewall scripts: the client through pkexec,
\* the daemon directly
Runners == {"client", "daemon"}

\* no sh process of the runner is alive
NoShell == [busy |-> FALSE, rest |-> <<>>, pending |-> <<>>, failed |-> 0]

FwStart(output4, output6) ==
    /\ fw = [iptables |-> [OUTPUT |-> output4, exists |-> FALSE,
                           chain |-> <<>>],
             ip6tables |-> [OUTPUT |-> output6, exists |-> FALSE,
                            chain |-> <<>>]]
    /\ fw_call = [op |-> "none", kind |-> "none", elevated |-> FALSE,
                  outcome |-> "none", result |-> "none", failed |-> 0,
                  before |-> fw, prev_kind |-> "none",
                  prev_outcome |-> "none"]
    /\ fw_n = 0
    /\ fw_sh = [r \in Runners |-> NoShell]
FwUnused == FwStart(<<>>, <<>>)

\* a hosts file holding one line for localhost, nothing done to it yet
HostsUntouched ==
    /\ hosts_file = <<LocalhostLine>>
    /\ hosts_op = NoHostsOp
    /\ hosts_log = <<>>
    /\ hosts_got = NoGot

(***************************************************************************)
(* Schedule evaluator                                                      *)
(***************************************************************************)
\* weekday indices, 0 = Sunday (num_days_from_sunday)
Weekdays == 0..6

\* minutes of day the clock is sampled at: 03:00, 07:00, 12:00, 16:00,
\* 21:00 and 23:30
NowMinutes == {180, 420, 720, 960, 1260, 1410}

\* day sets and window bounds of the entries the add_schedule command is given
InputDays == {{1}, Weekdays}
InputWindows == {<<420, 1260>>, <<1260, 420>>, <<420, 420>>}

ScheduleInputs ==
    { [enabled |-> e, days |-> d, start_minutes |-> w[1],
       end_minutes |-> w[2], blocking_enabled |-> b] :
        e \in BOOLEAN, d \in InputDays, w \in InputWindows, b \in BOOLEAN }

create_school_hours_schedule ==
    [enabled |-> TRUE, days |-> {1, 2, 3, 4, 5},
     start_minutes |-> 8 * 60, end_minutes |-> 15 * 60,
     blocking_enabled |-> TRUE]

create_bedtime_schedule ==
    [enabled |-> TRUE, days |-> {0, 1, 2, 3, 4, 5, 6},
     start_minutes |-> 21 * 60, end_minutes |-> 7 * 60,
     blocking_enabled |-> TRUE]

create_weekend_gaming_schedule ==
    [enabled |-> TRUE, days |-> {0, 6},
     start_minutes |-> 14 * 60, end_minutes |-> 18 * 60,
     blocking_enabled |-> FALSE]

Presets == {create_school_hours_schedule, create_bedtime_schedule,
            create_weekend_gaming_schedule}

\* no should_block_now result is pending
NoRet == [kind |-> "none"]

\* a window test that treats the overnight range as a conjunction
WindowReturnsConj(schedule, current_minutes) ==
    IF schedule.start_minutes <= schedule.end_minutes
    THEN current_minutes >= schedule.start_minutes
            /\ current_minutes < schedule.end_minutes
    ELSE current_minutes >= schedule.start_minutes
            /\ current_minutes < schedule.end_minutes

\* the time-window test of one loop iteration (engine.rs 27-37): TRUE when
\* the iteration returns
WindowReturns(schedule, current_minutes) ==
    IF schedule.start_minutes <= schedule.end_minutes
    THEN current_minutes >= schedule.start_minutes
            /\ current_minutes < schedule.end_minutes
    ELSE current_minutes >= schedule.start_minutes
            \/ current_minutes < schedule.end_minutes

\* a loop that counts the after-midnight part of an overnight entry to the
\* night that began on the day before
RECURSIVE ScheduleLoopNightOf(_, _, _, _)
ScheduleLoopNightOf(scheds, i, current_day, current_minutes) ==
    IF i > Len(scheds)
    THEN [result |-> TRUE, matched |-> 0]
    ELSE LET schedule == scheds[i]
             overnight == schedule.start_minutes > schedule.end_minutes
             day == IF overnight /\ current_minutes < schedule.end_minutes
                    THEN (current_day + 6) % 7 ELSE current_day
         IN  IF schedule.enabled /\ day \in schedule.days
                /\ WindowReturns(schedule, current_minutes)
             THEN [result |-> schedule.blocking_enabled, matched |-> i]
             ELSE ScheduleLoopNightOf(scheds, i + 1, current_day,
                                      current_minutes)

\* a loop that lets the last matching entry decide
RECURSIVE ScheduleLoopLast(_, _, _, _)
ScheduleLoopLast(scheds, i, current_day, current_minutes) ==
    IF i > Len(scheds)
    THEN [result |-> TRUE, matched |-> 0]
    ELSE LET schedule == scheds[i]
             rest == ScheduleLoopLast(scheds, i + 1, current_day,
                                      current_minutes)
         IN  IF rest.matched # 0 THEN rest
             ELSE IF schedule.enabled /\ current_day \in schedule.days
                     /\ WindowReturns(schedule, current_minutes)
             THEN [result |-> schedule.blocking_enabled, matched |-> i]
             ELSE rest

\* the for loop of should_block_now from position i on: the value returned
\* and the position of the entry whose iteration returned (0: the default
\* after the loop)
RECURSIVE ScheduleLoop(_, _, _, _)
ScheduleLoop(scheds, i, current_day, current_minutes) ==
    IF i > Len(scheds)
    THEN [result |-> TRUE, matched |-> 0]
    ELSE LET schedule == scheds[i] IN
         IF ~schedule.enabled
         THEN ScheduleLoop(scheds, i + 1, current_day, current_minutes)
         ELSE IF current_day \notin schedule.days
         THEN ScheduleLoop(scheds, i + 1, current_day, current_minutes)
         ELSE IF WindowReturns(schedule, current_minutes)
         THEN [result |-> schedule.blocking_enabled, matched |-> i]
         ELSE ScheduleLoop(scheds, i + 1, current_day, current_minutes)

\* an evaluator that lets an empty or unmatched list leave blocking off
EvaluateFailOpen(scheds, current_day, current_minutes) ==
    LET r == ScheduleLoop(scheds, 1, current_day, current_minutes)
    IN  IF r.matched = 0 THEN [result |-> FALSE, matched |-> 0] ELSE r

\* scheduler::should_block_now at the clock reading (current_day,
\* current_minutes)
Evaluate(scheds, current_day, current_minutes) ==
    IF scheds = <<>>
    THEN [result |-> TRUE, matched |-> 0]
    ELSE ScheduleLoop(scheds, 1, current_day, current_minutes)

\* Option<u32>
NoMinutes == [some |-> FALSE, value |-> 0]
SomeMinutes(n) == [some |-> TRUE, value |-> n]

\* u32::MAX, the starting value of min_minutes, which no offset reaches
\* (every offset is below 2 * 24 * 60); held as the largest 32-bit signed
\* integer
u32_MAX == 2147483647

min(a, b) == IF a <= b THEN a ELSE b

\* one iteration that looks at the start boundaries only
EntryOffsetsStartOnly(schedule, current_day, current_minutes, min_minutes) ==
    LET same_day ==
            IF current_day \in schedule.days
               /\ current_minutes < schedule.start_minutes
            THEN min(min_minutes, schedule.start_minutes - current_minutes)
            ELSE min_minutes
        next_day == (current_day + 1) % 7
    IN  IF next_day \in schedule.days
        THEN min(same_day, (24 * 60 - current_minutes)
                              + schedule.start_minutes)
        ELSE same_day

\* one iteration of the loop of minutes_until_change for an enabled entry
\* (engine.rs 61-79): min_minutes after the same-day and next-day checks
EntryOffsets(schedule, current_day, current_minutes, min_minutes) ==
    LET after_start ==
            IF current_day \in schedule.days
               /\ current_minutes < schedule.start_minutes
            THEN min(min_minutes, schedule.start_minutes - current_minutes)
            ELSE min_minutes
        after_end ==
            IF current_day \in schedule.days
               /\ current_minutes < schedule.end_minutes
            THEN min(after_start, schedule.end_minutes - current_minutes)
            ELSE after_start
        next_day == (current_day + 1) % 7
    IN  IF next_day \in schedule.days
        THEN min(after_end, (24 * 60 - current_minutes)
                               + schedule.start_minutes)
        ELSE after_end

\* the for loop of minutes_until_change from position i on
RECURSIVE MinutesLoop(_, _, _, _, _)
MinutesLoop(scheds, i, current_day, current_minutes, min_minutes) ==
    IF i > Len(scheds)
    THEN min_minutes
    ELSE IF ~scheds[i].enabled
    THEN MinutesLoop(scheds, i + 1, current_day, current_minutes, min_minutes)
    ELSE MinutesLoop(scheds, i + 1, current_day, current_minutes,
                     EntryOffsets(scheds[i], current_day, current_minutes,
                                  min_minutes))

\* scheduler::minutes_until_change at the clock reading (current_day,
\* current_minutes)
MinutesUntil(scheds, current_day, current_minutes) ==
    IF scheds = <<>>
    THEN NoMinutes
    ELSE LET min_minutes ==
                 MinutesLoop(scheds, 1, current_day, current_minutes, u32_MAX)
         IN  IF min_minutes = u32_MAX THEN NoMinutes
             ELSE SomeMinutes(min_minutes)

\* commands::add_schedule: append the given entry and save
add_schedule ==
    /\ sched_ret = NoRet
    /\ Len(schedules) < MaxSchedules
    /\ \E schedule \in ScheduleInputs :
          schedules' = Append(schedules, schedule)
    /\ UNCHANGED <<sched_ret, dns_call, proxyVars, hostsVars, ipcVars, termVars,
                   secVars,
                   fwVars>>

\* commands::add_preset_schedule: append one of the three templates and save
add_preset_schedule ==
    /\ sched_ret = NoRet
    /\ Len(schedules) < MaxSchedules
    /\ \E entry \in Presets : schedules' = Append(schedules, entry)
    /\ UNCHANGED <<sched_ret, dns_call, proxyVars, hostsVars, ipcVars, termVars,
                   secVars,
                   fwVars>>

\* commands::should_block_now: load the stored entries, read the clock and
\* evaluate
should_block_now ==
    /\ sched_ret = NoRet
    /\ \E current_day \in Weekdays, current_minutes \in NowMinutes :
          LET r == Evaluate(schedules, current_day, current_minutes)
          IN  sched_ret' = [kind |-> "bool", day |-> current_day,
                            minutes |-> current_minutes,
                            result |-> r.result, matched |-> r.matched]
    /\ UNCHANGED <<schedules, dns_call, proxyVars, hostsVars, ipcVars, termVars,
                   secVars,
                   fwVars>>

\* scheduler::minutes_until_change on the stored entries: read the clock and
\* compute
minutes_until_change ==
    /\ sched_ret = NoRet
    /\ \E current_day \in Weekdays, current_minutes \in NowMinutes :
          LET r == MinutesUntil(schedules, current_day, current_minutes)
          IN  sched_ret' = [kind |-> "minutes", day |-> current_day,
                            minutes |-> current_minutes,
                            some |-> r.some, value |-> r.value]
    /\ UNCHANGED <<schedules, dns_call, proxyVars, hostsVars, ipcVars, termVars,
                   secVars,
                   fwVars>>

\* the pending result is handed to the caller
deliver_result ==
    /\ sched_ret # NoRet
    /\ sched_ret' = NoRet
    /\ UNCHANGED <<schedules, dns_call, proxyVars, hostsVars, ipcVars, termVars,
                   secVars,
                   fwVars>>

SchedInit ==
    /\ schedules = <<>>
    /\ sched_ret = NoRet
    /\ dns_call = [fn |-> "none"]
    /\ ProxyNew
    /\ HostsUntouched
    /\ IpcUnused
    /\ TermUnused
    /\ SecUnused
    /\ FwUnused

SchedNext ==
    \/ add_schedule
    \/ add_preset_schedule
    \/ should_block_now
    \/ minutes_until_change
    \/ deliver_result

SpecSched == SchedInit /\ [][SchedNext]_vars

(***************************************************************************)
(* DNS packet functions (dns_proxy.rs)                                     *)
(***************************************************************************)
\* query[pos] with the 0-based index of the code
At(query, pos) == query[pos + 1]

\* &query[from..to]
Slice(query, from, to) == SubSeq(query, from + 1, to)

\* the range from..to lies inside the slice (otherwise indexing panics)
InBounds(query, from, to) == from <= to /\ to <= Len(query)

RECURSIVE Concat(_)
Concat(seqs) == IF seqs = <<>> THEN <<>> ELSE Head(seqs) \o Concat(Tail(seqs))

\* std::str::from_utf8(bytes).is_ok(): well-formed UTF-8 (Unicode table 3-7).
\* Every byte that is not a continuation byte (0x80..0xBF) begins a
\* well-formed sequence, and the continuation bytes are exactly the bytes
\* these sequences cover.
ValidUtf8(b) ==
    LET n == Len(b)
        Cont(i) == i <= n /\ b[i] >= 128 /\ b[i] <= 191
        \* the length of the well-formed sequence that begins at i, 0 if
        \* there is none
        Width(i) ==
            IF b[i] <= 127 THEN 1
            ELSE IF b[i] >= 194 /\ b[i] <= 223
                THEN IF Cont(i + 1) THEN 2 ELSE 0
            ELSE IF b[i] = 224
                THEN IF i + 1 <= n /\ b[i + 1] >= 160 /\ b[i + 1] <= 191
                        /\ Cont(i + 2) THEN 3 ELSE 0
            ELSE IF b[i] = 237
                THEN IF i + 1 <= n /\ b[i + 1] >= 128 /\ b[i + 1] <= 159
                        /\ Cont(i + 2) THEN 3 ELSE 0
            ELSE IF b[i] >= 225 /\ b[i] <= 239
                THEN IF Cont(i + 1) /\ Cont(i + 2) THEN 3 ELSE 0
            ELSE IF b[i] = 240
                THEN IF i + 1 <= n /\ b[i + 1] >= 144 /\ b[i + 1] <= 191
                        /\ Cont(i + 2) /\ Cont(i + 3) THEN 4 ELSE 0
            ELSE IF b[i] >= 241 /\ b[i] <= 243
                THEN IF Cont(i + 1) /\ Cont(i + 2) /\ Cont(i + 3)
                     THEN 4 ELSE 0
            ELSE IF b[i] = 244
                THEN IF i + 1 <= n /\ b[i + 1] >= 128 /\ b[i + 1] <= 143
                        /\ Cont(i + 2) /\ Cont(i + 3) THEN 4 ELSE 0
            ELSE 0
    IN  /\ n > 0 => ~Cont(1)
        /\ \A i \in 1..n :
              ~Cont(i) => /\ Width(i) > 0
                          /\ ~Cont(i + Width(i))

\* domain_parts.join("."): the parts separated by the byte '.'
RECURSIVE Join(_)
Join(parts) ==
    IF parts = <<>> THEN <<>>
    ELSE IF Len(parts) = 1 THEN parts[1]
    ELSE parts[1] \o <<46>> \o Join(Tail(parts))

\* what a call of a packet function produces: no value, a value, or a panic
\* on an index past the end of the slice
None == [kind |-> "none"]
Some(v) == [kind |-> "some", value |-> v]
Panic == [kind |-> "panic"]

\* a label loop that leaves out the check of the label's end
RECURSIVE ParseLoopUnchecked(_, _, _)
ParseLoopUnchecked(query, pos, domain_parts) ==
    LET finish == IF domain_parts = <<>> THEN None
                  ELSE Some(Join(domain_parts))
    IN  IF ~(pos < Len(query)) THEN finish
        ELSE LET len == At(query, pos)
                 pos1 == pos + 1
             IN  IF len = 0 THEN finish
                 ELSE IF ~InBounds(query, pos1, pos1 + len) THEN Panic
                 ELSE LET part == Slice(query, pos1, pos1 + len)
                      IN  ParseLoopUnchecked(query, pos1 + len,
                              IF ValidUtf8(part)
                              THEN Append(domain_parts, part)
                              ELSE domain_parts)

\* a label loop that keeps the length byte as part of the label
RECURSIVE ParseLoopKeepLen(_, _, _)
ParseLoopKeepLen(query, pos, domain_parts) ==
    LET finish == IF domain_parts = <<>> THEN None
                  ELSE Some(Join(domain_parts))
    IN  IF ~(pos < Len(query)) THEN finish
        ELSE LET len == At(query, pos)
                 pos1 == pos + 1
             IN  IF len = 0 THEN finish
                 ELSE IF pos1 + len > Len(query) THEN None
                 ELSE LET part == Slice(query, pos, pos1 + len)
                      IN  ParseLoopKeepLen(query, pos1 + len,
                              IF ValidUtf8(part)
                              THEN Append(domain_parts, part)
                              ELSE domain_parts)

\* the while loop of parse_dns_domain from position pos on, and the final
\* join
RECURSIVE ParseLoop(_, _, _)
ParseLoop(query, pos, domain_parts) ==
    LET finish == IF domain_parts = <<>> THEN None
                  ELSE Some(Join(domain_parts))
    IN  IF ~(pos < Len(query)) THEN finish
        ELSE LET len == At(query, pos)
                 pos1 == pos + 1
             IN  IF len = 0 THEN finish
                 ELSE IF pos1 + len > Len(query) THEN None
                 ELSE IF ~InBounds(query, pos1, pos1 + len) THEN Panic
                 ELSE LET part == Slice(query, pos1, pos1 + len)
                      IN  ParseLoop(query, pos1 + len,
                              IF ValidUtf8(part)
                              THEN Append(domain_parts, part)
                              ELSE domain_parts)

\* parse_dns_domain
parse_dns_domain(query) ==
    IF Len(query) < 13 THEN None ELSE ParseLoop(query, 12, <<>>)

\* a synthesis that copies the query's recursion-desired bit
create_nxdomain_response_copy_rd(query) ==
    IF Len(query) < 12 THEN None
    ELSE Some([query EXCEPT ![3] = 128 + (query[3] % 2), ![4] = 131,
                            ![7] = 0, ![8] = 0])

\* a synthesis that answers with the header alone
create_nxdomain_response_header_only(query) ==
    IF Len(query) < 12 THEN None
    ELSE Some([SubSeq(query, 1, 12) EXCEPT ![3] = 129, ![4] = 131,
                                           ![7] = 0, ![8] = 0])

\* create_nxdomain_response: the query with flag bytes 0x81 0x83 and a zero
\* answer count
create_nxdomain_response(query) ==
    IF Len(query) < 12 THEN None
    ELSE Some([query EXCEPT ![3] = 129, ![4] = 131, ![7] = 0, ![8] = 0])

\* --- inputs ---
\* 12-byte headers: transaction id, flag bytes and answer count vary
Headers ==
    { <<id[1], id[2], f[1], f[2], 0, 1, 0, an, 0, 0, 0, 0>> :
        id \in {<<0, 0>>, <<18, 52>>},
        f \in {<<0, 0>>, <<1, 32>>, <<132, 15>>}, an \in {0, 1} }

\* bytes of the question section of the raw packets: terminator, small
\* lengths, a letter, and a byte that is neither a fitting length nor text
RawBytes == {0, 1, 2, 97, 255}

RECURSIVE SeqsUpTo(_, _)
SeqsUpTo(S, n) ==
    IF n = 0 THEN {<<>>}
    ELSE LET shorter == SeqsUpTo(S, n - 1)
         IN  shorter \cup { Append(q, x) : q \in shorter, x \in S }

\* packets cut inside the header, and headers followed by up to MaxBody bytes
RawPackets ==
    { SubSeq(h, 1, n) : h \in Headers, n \in 0..11 }
        \cup { h \o b : h \in Headers, b \in SeqsUpTo(RawBytes, MaxBody) }

\* labels of valid text without '.': one or two characters, one of them
\* two bytes long, and a label of the greatest length, 63 bytes
LabelChars == {<<97>>, <<48>>, <<195, 169>>}
LongLabel == [i \in 1..63 |-> 97]
Labels == { c : c \in LabelChars } \cup
          { c \o d : c \in LabelChars, d \in LabelChars } \cup {LongLabel}
LabelSeqs == SeqsUpTo(Labels, MaxLabels) \ {<<>>}

\* the query test_parse_dns_domain builds: header, length-prefixed labels,
\* terminator, QTYPE and QCLASS
RECURSIVE EncodeLabels(_)
EncodeLabels(labels) ==
    IF labels = <<>> THEN <<>>
    ELSE <<Len(Head(labels))>> \o Head(labels) \o EncodeLabels(Tail(labels))

EncodeQuery(labels) ==
    <<0, 0, 0, 0, 0, 0, 0, 0, 0, 0, 0, 0>> \o EncodeLabels(labels)
        \o <<0>> \o <<0, 1, 0, 1>>

NoCall == [fn |-> "none"]

\* parse_dns_domain applied to raw bytes
call_parse ==
    /\ dns_call = NoCall
    /\ \E query \in RawPackets :
          dns_call' = [fn |-> "parse", query |-> query, labels |-> <<>>,
                       out |-> parse_dns_domain(query)]
    /\ UNCHANGED <<schedVars, proxyVars, hostsVars, ipcVars, termVars, secVars,
                   fwVars>>

\* parse_dns_domain applied to the encoding of a label sequence
call_parse_encoded ==
    /\ dns_call = NoCall
    /\ \E labels \in LabelSeqs :
          dns_call' = [fn |-> "parse", query |-> EncodeQuery(labels),
                       labels |-> labels,
                       out |-> parse_dns_domain(EncodeQuery(labels))]
    /\ UNCHANGED <<schedVars, proxyVars, hostsVars, ipcVars, termVars, secVars,
                   fwVars>>

\* create_nxdomain_response applied to raw bytes
call_nxdomain ==
    /\ dns_call = NoCall
    /\ \E query \in RawPackets :
          dns_call' = [fn |-> "nxdomain", query |-> query, labels |-> <<>>,
                       out |-> create_nxdomain_response(query)]
    /\ UNCHANGED <<schedVars, proxyVars, hostsVars, ipcVars, termVars, secVars,
                   fwVars>>

\* the call's result is consumed
call_return ==
    /\ dns_call # NoCall
    /\ dns_call' = NoCall
    /\ UNCHANGED <<schedVars, proxyVars, hostsVars, ipcVars, termVars, secVars,
                   fwVars>>

DnsInit ==
    /\ schedules = <<>>
    /\ sched_ret = NoRet
    /\ dns_call = NoCall
    /\ ProxyNew
    /\ HostsUntouched
    /\ IpcUnused
    /\ TermUnused
    /\ SecUnused
    /\ FwUnused

DnsNext ==
    \/ call_parse
    \/ call_parse_encoded
    \/ call_nxdomain
    \/ call_return

SpecDns == DnsInit /\ [][DnsNext]_vars

(***************************************************************************)
(* Domain classifier (blocklists::is_domain_blocked)                       *)
(***************************************************************************)
Lower(b) == IF b >= 65 /\ b <= 90 THEN b + 32 ELSE b

\* lowercase, one leading "www." stripped
NormalizeDomain(domain) ==
    LET l == [i \in 1..Len(domain) |-> Lower(domain[i])]
    IN  IF Len(l) >= 4 /\ SubSeq(l, 1, 4) = <<119, 119, 119, 46>>
        THEN SubSeq(l, 5, Len(l))
        ELSE l

\* the last two labels of a name
RegistrableForm(n) ==
    LET dots == { i \in 1..Len(n) : n[i] = 46 }
    IN  IF Cardinality(dots) < 2 THEN n
        ELSE LET last == CHOOSE i \in dots : \A j \in dots : j <= i
                 prev == CHOOSE i \in dots \ {last} :
                            \A j \in dots \ {last} : j <= i
             IN  SubSeq(n, prev + 1, Len(n))

is_domain_blocked(domain, blocked, allowed) ==
    LET n == NormalizeDomain(domain)
    IN  /\ n \in blocked \/ RegistrableForm(n) \in blocked
        /\ n \notin allowed

(***************************************************************************)
(* DNS proxy: serve task, policy updates, stop (dns_proxy.rs)              *)
(***************************************************************************)
\* size of buf and of response_buf
BUF_SIZE == 512

Zeros(n) == [i \in 1..n |-> 0]

ProxyHeader == <<18, 52, 1, 0, 0, 1, 0, 0, 0, 0, 0, 0>>

QueryFor(labels) == ProxyHeader \o EncodeLabels(labels) \o <<0, 0, 1, 0, 1>>

\* datagrams clients send: queries for "a", "b" and "WWW.a", a packet cut
\* inside the header, a packet cut inside a label, a query with an empty
\* name, and an empty-name packet one byte longer than buf
ShortDatagram == <<18, 52, 1>>
CutLabelDatagram == ProxyHeader \o <<3, 97>>
EmptyNameDatagram == ProxyHeader \o <<0, 0, 1, 0, 1>>
OversizedDatagram == ProxyHeader \o <<0>> \o Zeros(BUF_SIZE - 12)

ClientDatagrams ==
    { QueryFor(<<NameA>>), QueryFor(<<NameB>>),
      QueryFor(<<<<87, 87, 87>>, NameA>>),
      ShortDatagram, CutLabelDatagram, EmptyNameDatagram, OversizedDatagram }

\* senders of datagrams
Clients == {"c1", "c2"}

\* datagrams the upstream resolver answers with: a short answer and one
\* longer than response_buf
UpstreamReplies == { <<18, 52, 129, 128, 0, 1, 0, 1>>,
                     <<18, 52, 129, 128>> \o Zeros(BUF_SIZE) }

\* socket.recv_from(&mut buf): the first BUF_SIZE bytes of the datagram
Received(dgram) ==
    IF Len(dgram) <= BUF_SIZE THEN dgram ELSE SubSeq(dgram, 1, BUF_SIZE)

\* start(): UdpSocket::bind(bind_addr) succeeds
start_bind ==
    /\ srv.pc = "new"
    /\ srv' = [pc |-> "set_running"]
    /\ UNCHANGED <<stopped_early, running, blocked_domains, allowed_domains,
                   blocked_readers, io, upd, schedVars, dns_call, hostsVars, ipcVars, termVars,
                   secVars,
                   fwVars>>

\* start(): UdpSocket::bind(bind_addr) fails, start returns BindFailed
start_bind_failed ==
    /\ srv.pc = "new"
    /\ srv' = [pc |-> "returned", result |-> "BindFailed"]
    /\ UNCHANGED <<stopped_early, running, blocked_domains, allowed_domains,
                   blocked_readers, io, upd, schedVars, dns_call, hostsVars, ipcVars, termVars,
                   secVars,
                   fwVars>>

\* start(): *running = true
start_set_running ==
    /\ srv.pc = "set_running"
    /\ running' = TRUE
    /\ srv' = [pc |-> "check"]
    /\ UNCHANGED <<stopped_early, blocked_domains, allowed_domains,
                   blocked_readers, io,
                   upd, schedVars, dns_call, hostsVars, ipcVars, termVars,
                   secVars,
                   fwVars>>

\* loop head: read the running flag, break when it is false
loop_check ==
    /\ srv.pc = "check"
    /\ srv' = IF running THEN [pc |-> "recv"]
                         ELSE [pc |-> "returned", result |-> "Ok"]
    /\ UNCHANGED <<stopped_early, running, blocked_domains, allowed_domains,
                   blocked_readers, io, upd, schedVars, dns_call, hostsVars, ipcVars, termVars,
                   secVars,
                   fwVars>>

\* recv_from returns Ok((len, src)); the query is parsed
recv_ok ==
    /\ srv.pc = "recv"
    /\ \E dgram \in ClientDatagrams, src \in Clients :
       LET query == Received(dgram)
           parsed == parse_dns_domain(query)
       IN  /\ io' = [stage |-> "serving", dgram |-> dgram, src |-> src,
                     query |-> query, parsed |-> parsed,
                     verdict |-> "none", used_blocked |-> {},
                     used_allowed |-> {}, to_client |-> <<>>,
                     to_upstream |-> <<>>, reply |-> <<>>]
           /\ srv' = IF parsed.kind = "some" THEN [pc |-> "read_blocked"]
                                             ELSE [pc |-> "forward"]
    /\ UNCHANGED <<stopped_early, running, blocked_domains, allowed_domains,
                   blocked_readers, upd, schedVars, dns_call, hostsVars, ipcVars, termVars,
                   secVars,
                   fwVars>>

\* recv_from returns Err: logged, next iteration
recv_err ==
    /\ srv.pc = "recv"
    /\ srv' = [pc |-> "check"]
    /\ UNCHANGED <<stopped_early, running, blocked_domains, allowed_domains,
                   blocked_readers, io, upd, schedVars, dns_call, hostsVars, ipcVars, termVars,
                   secVars,
                   fwVars>>

\* should_block: self.blocked_domains.read().await; a writer queued on the
\* lock goes first
should_block_read_blocked ==
    /\ srv.pc = "read_blocked"
    /\ ~("waiting" \in upd.todo)
    /\ blocked_readers' = blocked_readers + 1
    /\ srv' = [pc |-> "read_allowed"]
    /\ UNCHANGED <<stopped_early, running, blocked_domains, allowed_domains,
                   io, upd,
                   schedVars, dns_call, hostsVars, ipcVars, termVars, secVars,
                   fwVars>>

\* a should_block whose read of allowed_domains waits for an update that
\* took the write guard of allowed_domains before asking for the one of
\* blocked_domains
should_block_read_allowed_behind_update ==
    /\ srv.pc = "read_allowed"
    /\ upd = NoUpdate
    /\ LET v == is_domain_blocked(io.parsed.value, blocked_domains,
                                  allowed_domains)
       IN  /\ io' = [io EXCEPT !.verdict = IF v THEN "blocked" ELSE "pass",
                               !.used_blocked = blocked_domains,
                               !.used_allowed = allowed_domains]
           /\ srv' = IF v THEN [pc |-> "nxdomain"] ELSE [pc |-> "forward"]
    /\ blocked_readers' = blocked_readers - 1
    /\ UNCHANGED <<stopped_early, running, blocked_domains, allowed_domains,
                   upd, schedVars, dns_call, hostsVars, ipcVars, termVars,
                   secVars, fwVars>>

\* should_block: self.allowed_domains.read().await, is_domain_blocked, both
\* guards dropped on return
should_block_read_allowed ==
    /\ srv.pc = "read_allowed"
    /\ LET v == is_domain_blocked(io.parsed.value, blocked_domains,
                                  allowed_domains)
       IN  /\ io' = [io EXCEPT !.verdict = IF v THEN "blocked" ELSE "pass",
                               !.used_blocked = blocked_domains,
                               !.used_allowed = allowed_domains]
           /\ srv' = IF v THEN [pc |-> "nxdomain"] ELSE [pc |-> "forward"]
    /\ blocked_readers' = blocked_readers - 1
    /\ UNCHANGED <<stopped_early, running, blocked_domains, allowed_domains,
                   upd,
                   schedVars, dns_call, hostsVars, ipcVars, termVars, secVars,
                   fwVars>>

\* a reply branch without the continue: the blocked query is forwarded too
send_nxdomain_fallthrough ==
    /\ srv.pc = "nxdomain"
    /\ LET response == create_nxdomain_response(io.query)
       IN  io' = [io EXCEPT
                     !.to_client =
                        IF response.kind = "some"
                        THEN Append(@, [to |-> io.src,
                                        bytes |-> response.value])
                        ELSE @]
    /\ srv' = [pc |-> "forward"]
    /\ UNCHANGED <<stopped_early, running, blocked_domains, allowed_domains,
                   blocked_readers, upd, schedVars, dns_call, hostsVars, ipcVars, termVars,
                   secVars,
                   fwVars>>

\* blocked: create_nxdomain_response, send_to(response, src), continue
send_nxdomain ==
    /\ srv.pc = "nxdomain"
    /\ LET response == create_nxdomain_response(io.query)
       IN  io' = [io EXCEPT !.stage = "done",
                     !.to_client =
                        IF response.kind = "some"
                        THEN Append(@, [to |-> io.src,
                                        bytes |-> response.value])
                        ELSE @]
    /\ srv' = [pc |-> "check"]
    /\ UNCHANGED <<stopped_early, running, blocked_domains, allowed_domains,
                   blocked_readers, upd, schedVars, dns_call, hostsVars, ipcVars, termVars,
                   secVars,
                   fwVars>>

\* forward: bind the upstream socket and send the query to the resolver
forward_send ==
    /\ srv.pc = "forward"
    /\ io' = [io EXCEPT !.to_upstream = Append(@, io.query)]
    /\ srv' = [pc |-> "await_reply"]
    /\ UNCHANGED <<stopped_early, running, blocked_domains, allowed_domains,
                   blocked_readers, upd, schedVars, dns_call, hostsVars, ipcVars, termVars,
                   secVars,
                   fwVars>>

\* forward: UdpSocket::bind("0.0.0.0:0") or upstream.send_to fails, the
\* error leaves start
forward_failed ==
    /\ srv.pc = "forward"
    /\ io' = [io EXCEPT !.stage = "done"]
    /\ srv' = [pc |-> "returned", result |-> "IoError"]
    /\ UNCHANGED <<stopped_early, running, blocked_domains, allowed_domains,
                   blocked_readers, upd, schedVars, dns_call, hostsVars, ipcVars, termVars,
                   secVars,
                   fwVars>>

\* the reply arrives within the timeout: its first BUF_SIZE bytes are sent
\* to the client
relay_reply ==
    /\ srv.pc = "await_reply"
    /\ \E reply \in UpstreamReplies :
          io' = [io EXCEPT !.stage = "done", !.reply = reply,
                     !.to_client = Append(@, [to |-> io.src,
                                              bytes |-> Received(reply)])]
    /\ srv' = [pc |-> "check"]
    /\ UNCHANGED <<stopped_early, running, blocked_domains, allowed_domains,
                   blocked_readers, upd, schedVars, dns_call, hostsVars, ipcVars, termVars,
                   secVars,
                   fwVars>>

\* timeout or receive error on the upstream socket: logged, no answer
upstream_timeout ==
    /\ srv.pc = "await_reply"
    /\ io' = [io EXCEPT !.stage = "done"]
    /\ srv' = [pc |-> "check"]
    /\ UNCHANGED <<stopped_early, running, blocked_domains, allowed_domains,
                   blocked_readers, upd, schedVars, dns_call, hostsVars, ipcVars, termVars,
                   secVars,
                   fwVars>>

\* stop(): *running = false
stop ==
    /\ running' = FALSE
    /\ stopped_early' = (stopped_early \/ srv.pc = "set_running")
    /\ UNCHANGED <<blocked_domains, allowed_domains, blocked_readers, srv,
                   io, upd, schedVars, dns_call, hostsVars, ipcVars, termVars,
                   secVars,
                   fwVars>>

\* a policy update starts: both sets are to be replaced
update_policy ==
    /\ upd = NoUpdate
    /\ \E policy \in Policies :
          upd' = [todo |-> {"blocked", "allowed"}, policy |-> policy]
    /\ UNCHANGED <<stopped_early, running, blocked_domains, allowed_domains,
                   blocked_readers, srv, io, schedVars, dns_call, hostsVars, ipcVars, termVars,
                   secVars,
                   fwVars>>

\* update_blocked: blocked_domains.write().await queues behind the read
\* guard of the serve task
update_blocked_wait ==
    /\ "blocked" \in upd.todo
    /\ "waiting" \notin upd.todo
    /\ blocked_readers > 0
    /\ upd' = [upd EXCEPT !.todo = @ \cup {"waiting"}]
    /\ UNCHANGED <<stopped_early, running, blocked_domains, allowed_domains,
                   blocked_readers, srv, io, schedVars, dns_call, hostsVars, ipcVars, termVars,
                   secVars,
                   fwVars>>

\* update_blocked: the write guard is held, *blocked = domains
update_blocked ==
    /\ "blocked" \in upd.todo
    /\ blocked_readers = 0
    /\ blocked_domains' = upd.policy.blocked
    /\ upd' = IF upd.todo \ {"blocked", "waiting"} = {}
              THEN NoUpdate
              ELSE [upd EXCEPT !.todo = @ \ {"blocked", "waiting"}]
    /\ UNCHANGED <<stopped_early, running, allowed_domains, blocked_readers,
                   srv, io,
                   schedVars, dns_call, hostsVars, ipcVars, termVars, secVars,
                   fwVars>>

\* update_allowed: *allowed = domains (the serve task holds its read guard
\* on allowed_domains only between two suspension points, so the write
\* never queues)
update_allowed ==
    /\ "allowed" \in upd.todo
    /\ "waiting" \notin upd.todo
    /\ allowed_domains' = upd.policy.allowed
    /\ upd' = IF upd.todo \ {"allowed"} = {}
              THEN NoUpdate
              ELSE [upd EXCEPT !.todo = @ \ {"allowed"}]
    /\ UNCHANGED <<stopped_early, running, blocked_domains, blocked_readers,
                   srv, io,
                   schedVars, dns_call, hostsVars, ipcVars, termVars, secVars,
                   fwVars>>

ProxyInit ==
    /\ schedules = <<>>
    /\ sched_ret = NoRet
    /\ dns_call = NoCall
    /\ \E p \in Policies : ProxyNewWith(p)
    /\ HostsUntouched
    /\ IpcUnused
    /\ TermUnused
    /\ SecUnused
    /\ FwUnused

ProxyNext ==
    \/ start_bind
    \/ start_bind_failed
    \/ start_set_running
    \/ loop_check
    \/ recv_ok
    \/ recv_err
    \/ should_block_read_blocked
    \/ should_block_read_allowed
    \/ send_nxdomain
    \/ forward_send
    \/ forward_failed
    \/ relay_reply
    \/ upstream_timeout
    \/ stop
    \/ update_policy
    \/ update_blocked_wait
    \/ update_blocked
    \/ update_allowed

SpecProxy == ProxyInit /\ [][ProxyNext]_vars

\* steps the runtime takes without waiting for the network: every ready
\* task is polled (a write().await is granted at once or queued in the
\* lock's FIFO), a lock is granted once it is free, and the wait for the
\* upstream reply ends after the 5 s timeout at the latest.  The arrival of
\* a datagram at the socket (recv_ok, recv_err) is left to the clients.
ProxyFairness ==
    /\ WF_vars(start_set_running)
    /\ WF_vars(loop_check)
    /\ WF_vars(should_block_read_blocked)
    /\ WF_vars(should_block_read_allowed)
    /\ WF_vars(send_nxdomain)
    /\ WF_vars(forward_send \/ forward_failed)
    /\ WF_vars(relay_reply \/ upstream_timeout)
    /\ WF_vars(update_blocked_wait \/ update_blocked)
    /\ WF_vars(update_allowed)

SpecProxyFair == SpecProxy /\ ProxyFairness

(***************************************************************************)
(* Hosts-file reconciler (blocking/hosts.rs)                               *)
(***************************************************************************)
\* line.contains(MARKER_START), line.contains(MARKER_END)
ContainsStart(line) == line.k = "start"
ContainsEnd(line) == line.k = "end"

\* remove_gameblocker_section: the lines kept by the loop from position i on
RECURSIVE RemoveLoop(_, _, _)
RemoveLoop(lines, i, in_section) ==
    IF i > Len(lines) THEN <<>>
    ELSE IF ContainsStart(lines[i]) THEN RemoveLoop(lines, i + 1, TRUE)
    ELSE IF ContainsEnd(lines[i]) THEN RemoveLoop(lines, i + 1, FALSE)
    ELSE IF ~in_section
         THEN <<lines[i]>> \o RemoveLoop(lines, i + 1, in_section)
         ELSE RemoveLoop(lines, i + 1, in_section)

remove_gameblocker_section(content) == RemoveLoop(content, 1, FALSE)

\* cleaned.trim_end(): trailing empty lines dropped
RECURSIVE TrimEnd(_)
TrimEnd(lines) ==
    IF lines = <<>> THEN <<>>
    ELSE IF lines[Len(lines)].k = "blank"
         THEN TrimEnd(SubSeq(lines, 1, Len(lines) - 1))
         ELSE lines

\* format!("www.{}", domain)
WwwOf(domain) == [domain EXCEPT !.www = @ + 1]

\* the four lines pushed for one domain
DomainLines(domain) ==
    << Line(<<"127.0.0.1", domain>>), Line(<<"127.0.0.1", WwwOf(domain)>>),
       Line(<<"::1", domain>>), Line(<<"::1", WwwOf(domain)>>) >>

\* new_section for the domains in the order the set is iterated
NewSection(order) ==
    <<MarkerStartLine>>
        \o Concat([i \in 1..Len(order) |-> DomainLines(order[i])])
        \o <<MarkerEndLine>>

\* new_content: cleaned.trim_end() followed by "\n" and the section
NewContent(content, order) ==
    LET cleaned == TrimEnd(remove_gameblocker_section(content))
    IN  (IF cleaned = <<>> THEN <<BlankLine>> ELSE cleaned)
            \o NewSection(order)

\* parts[1].trim_start_matches("www.")
TrimWww(host) == [host EXCEPT !.www = 0]

\* get_blocked_domains: the domains collected by the loop from position i on
RECURSIVE GetLoop(_, _, _)
GetLoop(lines, i, in_section) ==
    IF i > Len(lines) THEN {}
    ELSE IF ContainsStart(lines[i]) THEN GetLoop(lines, i + 1, TRUE)
    ELSE IF ContainsEnd(lines[i]) THEN {}
    ELSE IF in_section /\ lines[i].k = "line" /\ Len(lines[i].parts) >= 2
         THEN {TrimWww(lines[i].parts[2])}
                  \cup GetLoop(lines, i + 1, in_section)
         ELSE GetLoop(lines, i + 1, in_section)

\* --- inputs ---
\* domains of the blocked set: "a" and "www.a" (add_blocked_domain stores
\* what the user typed, lowercased)
HostsDomains == {Dom(0, "a"), Dom(1, "a")}

\* the orders in which a set can be iterated
Orders(D) ==
    { o \in [1..Cardinality(D) -> D] : \A x \in D : \E i \in DOMAIN o : o[i] = x }

\* lines of the hosts file as other programs and earlier runs left it
ForeignLines == {LocalhostLine, NoteLine, BlankLine, MarkerStartLine,
                 MarkerEndLine}

\* completed operations remembered: the last two
Logged(log, op) ==
    IF Len(log) < 2 THEN Append(log, op) ELSE <<log[2], op>>

\* block_domains_direct with an empty set: returns Ok at once
apply_empty ==
    /\ hosts_op = NoHostsOp
    /\ hosts_got = NoGot
    /\ hosts_log' = Logged(hosts_log, [op |-> "apply", domains |-> {}])
    /\ UNCHANGED <<hosts_file, hosts_op, hosts_got, schedVars, dns_call,
                   proxyVars, ipcVars, termVars, secVars,
                   fwVars>>

\* block_domains_direct: read the file, build new_content, and fs::write
\* opens the file truncating it
apply_begin ==
    /\ hosts_op = NoHostsOp
    /\ hosts_got = NoGot
    /\ \E D \in (SUBSET HostsDomains) \ {{}} : \E order \in Orders(D) :
          hosts_op' = [pc |-> "writing", op |-> "apply", domains |-> D,
                       before |-> hosts_file,
                       content |-> NewContent(hosts_file, order)]
    /\ hosts_file' = <<>>
    /\ UNCHANGED <<hosts_log, hosts_got, schedVars, dns_call, proxyVars,
                   ipcVars, termVars, secVars,
                   fwVars>>

\* unblock_all_domains_direct: read the file, remove the section, and
\* fs::write opens the file truncating it
clear_begin ==
    /\ hosts_op = NoHostsOp
    /\ hosts_got = NoGot
    /\ hosts_op' = [pc |-> "writing", op |-> "clear", domains |-> {},
                    before |-> hosts_file,
                    content |-> remove_gameblocker_section(hosts_file)]
    /\ hosts_file' = <<>>
    /\ UNCHANGED <<hosts_log, hosts_got, schedVars, dns_call, proxyVars,
                   ipcVars, termVars, secVars,
                   fwVars>>

\* fs::write: part of the content has reached the file
write_partial ==
    /\ hosts_op.pc = "writing"
    /\ \E n \in (Len(hosts_file) + 1)..(Len(hosts_op.content) - 1) :
          hosts_file' = SubSeq(hosts_op.content, 1, n)
    /\ UNCHANGED <<hosts_op, hosts_log, hosts_got, schedVars, dns_call,
                   proxyVars, ipcVars, termVars, secVars,
                   fwVars>>

\* fs::write: all of the content has reached the file, the operation
\* returns Ok
write_finish ==
    /\ hosts_op.pc = "writing"
    /\ hosts_file' = hosts_op.content
    /\ hosts_log' = Logged(hosts_log, [op |-> hosts_op.op,
                                       domains |-> hosts_op.domains])
    /\ hosts_op' = NoHostsOp
    /\ UNCHANGED <<hosts_got, schedVars, dns_call, proxyVars,
                   ipcVars, termVars, secVars,
                   fwVars>>

\* the process dies in the middle of fs::write; the file stays as it is
write_crash ==
    /\ hosts_op.pc = "writing"
    /\ hosts_op' = NoHostsOp
    /\ hosts_log' = <<>>
    /\ UNCHANGED <<hosts_file, hosts_got, schedVars, dns_call, proxyVars,
                   ipcVars, termVars, secVars,
                   fwVars>>

\* get_blocked_domains
get_blocked_domains ==
    /\ hosts_op = NoHostsOp
    /\ hosts_got = NoGot
    /\ hosts_got' = [kind |-> "set",
                     domains |-> GetLoop(hosts_file, 1, FALSE)]
    /\ UNCHANGED <<hosts_file, hosts_op, hosts_log, schedVars, dns_call,
                   proxyVars, ipcVars, termVars, secVars,
                   fwVars>>

\* the caller takes the result
get_return ==
    /\ hosts_got # NoGot
    /\ hosts_got' = NoGot
    /\ UNCHANGED <<hosts_file, hosts_op, hosts_log, schedVars, dns_call,
                   proxyVars, ipcVars, termVars, secVars,
                   fwVars>>

HostsInit ==
    /\ schedules = <<>>
    /\ sched_ret = NoRet
    /\ dns_call = NoCall
    /\ ProxyNew
    /\ hosts_file \in SeqsUpTo(ForeignLines, MaxHostsLines)
    /\ hosts_op = NoHostsOp
    /\ hosts_log = <<>>
    /\ hosts_got = NoGot
    /\ IpcUnused
    /\ TermUnused
    /\ SecUnused
    /\ FwUnused

HostsNext ==
    \/ apply_empty
    \/ apply_begin
    \/ clear_begin
    \/ write_partial
    \/ write_finish
    \/ write_crash
    \/ get_blocked_domains
    \/ get_return

SpecHosts == HostsInit /\ [][HostsNext]_vars

(***************************************************************************)
(* IPC protocol (daemon/ipc.rs): messages and their JSON form              *)
(***************************************************************************)
\* a String: the characters of text followed by pad further characters
Text(text, pad) == [text |-> text, pad |-> pad]
StrLen(s) == Len(s.text) + s.pad

\* JSON values
JNull == [t |-> "null"]
JBool(b) == [t |-> "bool", v |-> b]
JNum(n) == [t |-> "num", v |-> n]
JStr(s) == [t |-> "str", v |-> s]
JArr(items) == [t |-> "arr", v |-> items]
JObj(pairs) == [t |-> "obj", v |-> pairs]

\* decimal digits of a number
RECURSIVE Digits(_)
Digits(n) == IF n < 10 THEN 1 ELSE 1 + Digits(n \div 10)

\* json.len(): bytes of the compact text serde_json::to_vec writes
RECURSIVE JsonLen(_)
RECURSIVE ItemsLen(_)
RECURSIVE PairsLen(_)
JsonLen(j) ==
    CASE j.t = "null" -> 4
      [] j.t = "bool" -> IF j.v THEN 4 ELSE 5
      [] j.t = "num" -> Digits(j.v)
      [] j.t = "str" -> StrLen(j.v) + 2
      [] j.t = "arr" -> 2 + ItemsLen(j.v)
      [] j.t = "obj" -> 2 + PairsLen(j.v)

ItemsLen(items) ==
    IF items = <<>> THEN 0
    ELSE JsonLen(Head(items)) + (IF Len(items) > 1 THEN 1 ELSE 0)
             + ItemsLen(Tail(items))

PairsLen(pairs) ==
    IF pairs = <<>> THEN 0
    ELSE Len(Head(pairs)[1]) + 3 + JsonLen(Head(pairs)[2])
             + (IF Len(pairs) > 1 THEN 1 ELSE 0) + PairsLen(Tail(pairs))

\* variants without fields
RequestUnits == {"GetStatus", "RunBlockingCheck", "ApplyBlocking",
                 "EnableFirewall", "DisableFirewall", "Shutdown", "Ping"}
ResponseUnits == {"Ok", "Pong"}

\* #[serde(rename_all = "snake_case")]
SnakeCase(name) ==
    CASE name = "GetStatus" -> "get_status"
      [] name = "UpdateConfig" -> "update_config"
      [] name = "RunBlockingCheck" -> "run_blocking_check"
      [] name = "ApplyBlocking" -> "apply_blocking"
      [] name = "EnableFirewall" -> "enable_firewall"
      [] name = "DisableFirewall" -> "disable_firewall"
      [] name = "Shutdown" -> "shutdown"
      [] name = "Ping" -> "ping"
      [] name = "Status" -> "status"
      [] name = "Ok" -> "ok"
      [] name = "BlockedProcesses" -> "blocked_processes"
      [] name = "Error" -> "error"
      [] name = "Pong" -> "pong"

\* #[serde(tag = "type")]
Tag(name) == <<"type", JStr(Text(SnakeCase(name), 0))>>

\* an Option<bool> written as false when absent
OptionBoolOrFalse(o) == IF o = None THEN JBool(FALSE) ELSE JBool(o.value)

\* Serialize for Option<bool>: null when absent
OptionBool(o) == IF o = None THEN JNull ELSE JBool(o.value)

\* Serialize for DaemonRequest
SerializeRequest(r) ==
    IF r.type = "UpdateConfig"
    THEN JObj(<< Tag(r.type),
                 <<"game_blocking", OptionBool(r.game_blocking)>>,
                 <<"ai_blocking", OptionBool(r.ai_blocking)>>,
                 <<"dns_blocking", OptionBool(r.dns_blocking)>>,
                 <<"browser_blocking", OptionBool(r.browser_blocking)>> >>)
    ELSE JObj(<<Tag(r.type)>>)

\* Serialize for BlockedProcessInfo
SerializeProcess(p) ==
    JObj(<< <<"pid", JNum(p.pid)>>, <<"name", JStr(p.name)>> >>)

\* Serialize for DaemonResponse
SerializeResponse(r) ==
    CASE r.type = "Status" ->
            JObj(<< Tag(r.type),
                    <<"running", JBool(r.running)>>,
                    <<"blocking_active", JBool(r.blocking_active)>>,
                    <<"game_blocking", JBool(r.game_blocking)>>,
                    <<"ai_blocking", JBool(r.ai_blocking)>>,
                    <<"dns_blocking", JBool(r.dns_blocking)>>,
                    <<"browser_blocking", JBool(r.browser_blocking)>>,
                    <<"firewall_active", JBool(r.firewall_active)>>,
                    <<"blocked_count", JNum(r.blocked_count)>>,
                    <<"uptime_secs", JNum(r.uptime_secs)>> >>)
      [] r.type = "BlockedProcesses" ->
            JObj(<< Tag(r.type),
                    <<"processes",
                      JArr([i \in 1..Len(r.processes) |->
                               SerializeProcess(r.processes[i])])>> >>)
      [] r.type = "Error" ->
            JObj(<< Tag(r.type), <<"message", JStr(r.message)>> >>)
      [] OTHER -> JObj(<<Tag(r.type)>>)

\* a value that does not deserialize
Bad == [kind |-> "bad"]

\* the value of a field of a JSON object
Field(obj, key) ==
    LET hits == { i \in 1..Len(obj.v) : obj.v[i][1] = key }
    IN  IF hits = {} THEN [t |-> "missing"]
        ELSE IF Cardinality(hits) > 1 THEN [t |-> "duplicate"]
        ELSE obj.v[CHOOSE i \in hits : TRUE][2]

\* Deserialize for Option<bool>, bool, u32/u64, String
DeOptionBool(j) ==
    IF j.t \in {"missing", "null"} THEN None
    ELSE IF j.t = "bool" THEN Some(j.v) ELSE Bad
DeBool(j) == IF j.t = "bool" THEN Some(j.v) ELSE Bad
DeNum(j) == IF j.t = "num" THEN Some(j.v) ELSE Bad
DeString(j) == IF j.t = "str" THEN Some(j.v) ELSE Bad

\* the variant a tag names
VariantOf(names, tag) ==
    IF tag.t = "str" /\ tag.v.pad = 0
           /\ \E n \in names : SnakeCase(n) = tag.v.text
    THEN CHOOSE n \in names : SnakeCase(n) = tag.v.text
    ELSE "unknown"

\* Deserialize for DaemonRequest
DeserializeRequest(j) ==
    IF j.t # "obj" THEN Bad
    ELSE LET variant == VariantOf(RequestUnits \cup {"UpdateConfig"},
                                  Field(j, "type"))
             game == DeOptionBool(Field(j, "game_blocking"))
             ai == DeOptionBool(Field(j, "ai_blocking"))
             dns == DeOptionBool(Field(j, "dns_blocking"))
             browser == DeOptionBool(Field(j, "browser_blocking"))
         IN  IF variant = "unknown" THEN Bad
             ELSE IF variant # "UpdateConfig" THEN Some([type |-> variant])
             ELSE IF game = Bad \/ ai = Bad \/ dns = Bad \/ browser = Bad
                  THEN Bad
             ELSE Some([type |-> variant, game_blocking |-> game,
                        ai_blocking |-> ai, dns_blocking |-> dns,
                        browser_blocking |-> browser])

\* Deserialize for BlockedProcessInfo
DeserializeProcess(j) ==
    IF j.t # "obj" THEN Bad
    ELSE LET pid == DeNum(Field(j, "pid"))
             name == DeString(Field(j, "name"))
         IN  IF pid = Bad \/ name = Bad THEN Bad
             ELSE Some([pid |-> pid.value, name |-> name.value])

\* Deserialize for Vec<BlockedProcessInfo>
DeserializeProcesses(j) ==
    IF j.t # "arr" THEN Bad
    ELSE IF \E i \in 1..Len(j.v) : DeserializeProcess(j.v[i]) = Bad THEN Bad
    ELSE Some([i \in 1..Len(j.v) |-> DeserializeProcess(j.v[i]).value])

\* Deserialize for DaemonResponse
DeserializeResponse(j) ==
    IF j.t # "obj" THEN Bad
    ELSE LET variant == VariantOf(ResponseUnits \cup {"Status",
                                      "BlockedProcesses", "Error"},
                                  Field(j, "type"))
             B(key) == DeBool(Field(j, key))
             N(key) == DeNum(Field(j, key))
             bools == {"running", "blocking_active", "game_blocking",
                       "ai_blocking", "dns_blocking", "browser_blocking",
                       "firewall_active"}
             nums == {"blocked_count", "uptime_secs"}
             processes == DeserializeProcesses(Field(j, "processes"))
             message == DeString(Field(j, "message"))
         IN  CASE variant = "unknown" -> Bad
               [] variant = "Status" ->
                     IF (\E k \in bools : B(k) = Bad)
                            \/ (\E k \in nums : N(k) = Bad)
                     THEN Bad
                     ELSE Some([type |-> variant,
                                running |-> B("running").value,
                                blocking_active |-> B("blocking_active").value,
                                game_blocking |-> B("game_blocking").value,
                                ai_blocking |-> B("ai_blocking").value,
                                dns_blocking |-> B("dns_blocking").value,
                                browser_blocking |->
                                    B("browser_blocking").value,
                                firewall_active |-> B("firewall_active").value,
                                blocked_count |-> N("blocked_count").value,
                                uptime_secs |-> N("uptime_secs").value])
               [] variant = "BlockedProcesses" ->
                     IF processes = Bad THEN Bad
                     ELSE Some([type |-> variant,
                                processes |-> processes.value])
               [] variant = "Error" ->
                     IF message = Bad THEN Bad
                     ELSE Some([type |-> variant, message |-> message.value])
               [] OTHER -> Some([type |-> variant])

(***************************************************************************)
(* IPC protocol: frames                                                    *)
(***************************************************************************)
\* the largest payload read_message reads
MaxMessage == 1024 * 1024

\* len.to_le_bytes()
to_le_bytes(len) ==
    << len % 256, (len \div 256) % 256, (len \div 65536) % 256,
       (len \div 16777216) % 256 >>

\* u32::from_le_bytes(len_bytes), held as its two 16-bit halves
from_le_bytes(len_bytes) ==
    [hi |-> len_bytes[4] * 256 + len_bytes[3],
     lo |-> len_bytes[2] * 256 + len_bytes[1]]

\* a size test that also turns down a length equal to the maximum
TooLargeInclusive(len) ==
    \/ len.hi > MaxMessage \div 65536
    \/ len.hi = MaxMessage \div 65536 /\ len.lo >= MaxMessage % 65536

\* len > 1024 * 1024
TooLarge(len) ==
    \/ len.hi > MaxMessage \div 65536
    \/ len.hi = MaxMessage \div 65536 /\ len.lo > MaxMessage % 65536

\* the length as usize
AsUsize(len) == len.hi * 65536 + len.lo

\* bytes that are not the text of a JSON value
Junk(n) == [kind |-> "junk", n |-> n, json |-> JNull]

\* write_message: the stream after the prefix and the JSON text are
\* written and flushed
WriteMessage(json) ==
    [head |-> to_le_bytes(JsonLen(json)),
     body |-> [kind |-> "json", n |-> JsonLen(json), json |-> json],
     rest |-> 0]

IoErr(err, consumed) ==
    [kind |-> "Err", err |-> err, consumed |-> consumed]
IoOk(value, consumed) ==
    [kind |-> "Ok", value |-> value, consumed |-> consumed]

\* read_message::<T> on a stream: its result and the bytes it took
ReadMessage(stream, T) ==
    IF Len(stream.head) < 4
    THEN IoErr("UnexpectedEof", Len(stream.head))
    ELSE LET len == from_le_bytes(stream.head) IN
         IF TooLarge(len) THEN IoErr("Message too large", 4)
         ELSE LET n == AsUsize(len)
                  available == stream.body.n + stream.rest
                  parsed ==
                      IF stream.body.kind = "json" /\ n = stream.body.n
                      THEN IF T = "DaemonRequest"
                           THEN DeserializeRequest(stream.body.json)
                           ELSE DeserializeResponse(stream.body.json)
                      ELSE Bad
              IN  IF available < n
                  THEN IoErr("UnexpectedEof", 4 + available)
                  ELSE IF parsed = Bad THEN IoErr("InvalidJson", 4 + n)
                  ELSE IoOk(parsed.value, 4 + n)

\* --- inputs ---
OptionBools == {None, Some(TRUE), Some(FALSE)}

Requests ==
    { [type |-> t] : t \in RequestUnits }
        \cup { [type |-> "UpdateConfig", game_blocking |-> g,
                ai_blocking |-> a, dns_blocking |-> d,
                browser_blocking |-> b] :
                   g \in OptionBools, a \in OptionBools,
                   d \in OptionBools, b \in OptionBools }

\* blocked_count, uptime_secs, pid
Counts == {0, 2147483647}

StatusResponses ==
    { [type |-> "Status", running |-> r, blocking_active |-> ba,
       game_blocking |-> g, ai_blocking |-> a, dns_blocking |-> d,
       browser_blocking |-> b, firewall_active |-> f,
       blocked_count |-> c, uptime_secs |-> u] :
          r \in BOOLEAN, ba \in BOOLEAN, g \in BOOLEAN, a \in BOOLEAN,
          d \in BOOLEAN, b \in BOOLEAN, f \in BOOLEAN,
          c \in Counts, u \in Counts }

ProcessInfos == { [pid |-> p, name |-> n] :
                     p \in Counts, n \in {Text("", 0), Text("steam", 0)} }

\* an Error whose payload is n bytes long
ErrorOfSize(n) ==
    [type |-> "Error",
     message |-> Text("", n - JsonLen(SerializeResponse(
                              [type |-> "Error", message |-> Text("", 0)])))]

Responses ==
    StatusResponses
        \cup { [type |-> t] : t \in ResponseUnits }
        \cup { [type |-> "BlockedProcesses", processes |-> ps] :
                  ps \in SeqsUpTo(ProcessInfos, MaxProcesses) }
        \cup { [type |-> "Error", message |-> Text("denied", 0)],
               ErrorOfSize(MaxMessage), ErrorOfSize(MaxMessage + 1) }

\* bytes a peer can put on the stream
PeerBytes == {0, 1, 16, 255}
PeerStreams ==
    { [head |-> h, body |-> Junk(0), rest |-> 0] :
          h \in SeqsUpTo(PeerBytes, 3) }
        \cup { [head |-> h, body |-> Junk(n), rest |-> 0] :
                  h \in [1..4 -> PeerBytes],
                  n \in {0, 5, MaxMessage, MaxMessage + 1} }

\* write_message(&mut buffer, &request)
write_request ==
    /\ ipc_call = NoIpcCall
    /\ \E r \in Requests :
          /\ ipc_stream' = WriteMessage(SerializeRequest(r))
          /\ ipc_call' = [pc |-> "written", T |-> "DaemonRequest",
                          message |-> r]
    /\ UNCHANGED <<ipc_pipe, schedVars, dns_call, proxyVars, hostsVars, termVars,
                   secVars,
                   fwVars>>

\* write_message(&mut buffer, &response)
write_response ==
    /\ ipc_call = NoIpcCall
    /\ \E r \in Responses :
          /\ ipc_stream' = WriteMessage(SerializeResponse(r))
          /\ ipc_call' = [pc |-> "written", T |-> "DaemonResponse",
                          message |-> r]
    /\ UNCHANGED <<ipc_pipe, schedVars, dns_call, proxyVars, hostsVars, termVars,
                   secVars,
                   fwVars>>

\* the peer writes bytes of its own choosing
peer_write ==
    /\ ipc_call = NoIpcCall
    /\ \E s \in PeerStreams : \E T \in {"DaemonRequest", "DaemonResponse"} :
          /\ ipc_stream' = s
          /\ ipc_call' = [pc |-> "peer", T |-> T]
    /\ UNCHANGED <<ipc_pipe, schedVars, dns_call, proxyVars, hostsVars, termVars,
                   secVars,
                   fwVars>>

\* read_message(&mut cursor)
read_message ==
    /\ ipc_call.pc \in {"written", "peer"}
    /\ ipc_call' = [pc |-> "read", from |-> ipc_call,
                    result |-> ReadMessage(ipc_stream, ipc_call.T)]
    /\ UNCHANGED <<ipc_stream, ipc_pipe, schedVars, dns_call, proxyVars, hostsVars,
                   termVars, secVars,
                   fwVars>>

\* the connection is closed
ipc_close ==
    /\ ipc_call.pc = "read"
    /\ ipc_stream' = NoStream
    /\ ipc_call' = NoIpcCall
    /\ UNCHANGED <<ipc_pipe, schedVars, dns_call, proxyVars, hostsVars, termVars,
                   secVars,
                   fwVars>>

IpcInit ==
    /\ schedules = <<>>
    /\ sched_ret = NoRet
    /\ dns_call = NoCall
    /\ ProxyNew
    /\ HostsUntouched
    /\ IpcUnused
    /\ TermUnused
    /\ SecUnused
    /\ FwUnused

IpcNext ==
    \/ write_request
    \/ write_response
    \/ peer_write
    \/ read_message
    \/ ipc_close

SpecIpc == IpcInit /\ [][IpcNext]_vars

\* --- several frames on one stream ---
\* most frames written to one stream, most reads made of it
MaxFrames == 2
MaxReads == 3

PipeRequests ==
    { [type |-> "Ping"], [type |-> "GetStatus"],
      [type |-> "UpdateConfig", game_blocking |-> Some(TRUE),
       ai_blocking |-> None, dns_blocking |-> Some(FALSE),
       browser_blocking |-> None] }

PipeResponses ==
    { [type |-> "Ok"], [type |-> "Error", message |-> Text("denied", 0)],
      [type |-> "BlockedProcesses",
       processes |-> <<[pid |-> 0, name |-> Text("steam", 0)]>>],
      ErrorOfSize(MaxMessage), ErrorOfSize(MaxMessage + 1) }

\* read_message::<T> with the stream positioned off bytes into a frame.
\* At a frame's first byte the frame is read as ReadMessage reads it. Past
\* the prefix the four bytes taken as the length are bytes of JSON text,
\* each at least 0x20, so the length is at least 0x20202020.
ReadAt(frame, off, T) ==
    IF off = 0 THEN ReadMessage(frame.stream, T)
    ELSE IoErr("Message too large", 4)

\* write_message(&mut stream, &request) after the frames already written
pipe_write_request ==
    /\ Len(ipc_pipe.frames) < MaxFrames
    /\ \E r \in PipeRequests :
          ipc_pipe' = [ipc_pipe EXCEPT !.frames =
                          Append(@, [T |-> "DaemonRequest", message |-> r,
                                     stream |->
                                        WriteMessage(SerializeRequest(r))])]
    /\ UNCHANGED <<ipc_stream, ipc_call, schedVars, dns_call, proxyVars,
                   hostsVars, termVars, secVars, fwVars>>

\* write_message(&mut stream, &response) after the frames already written
pipe_write_response ==
    /\ Len(ipc_pipe.frames) < MaxFrames
    /\ \E r \in PipeResponses :
          ipc_pipe' = [ipc_pipe EXCEPT !.frames =
                          Append(@, [T |-> "DaemonResponse", message |-> r,
                                     stream |->
                                        WriteMessage(SerializeResponse(r))])]
    /\ UNCHANGED <<ipc_stream, ipc_call, schedVars, dns_call, proxyVars,
                   hostsVars, termVars, secVars, fwVars>>

\* read_message::<T>(&mut stream) where the previous call left the stream;
\* a call is made while the frame the stream is in holds four more bytes
pipe_read_message ==
    /\ Len(ipc_pipe.reads) < MaxReads
    /\ ipc_pipe.next <= Len(ipc_pipe.frames)
    /\ LET frame == ipc_pipe.frames[ipc_pipe.next]
           size == 4 + frame.stream.body.n
       IN  /\ ipc_pipe.off + 4 <= size
           /\ \E T \in {"DaemonRequest", "DaemonResponse"} :
                 LET result == ReadAt(frame, ipc_pipe.off, T)
                     after == ipc_pipe.off + result.consumed
                 IN  ipc_pipe' =
                        [ipc_pipe EXCEPT
                            !.next = IF after = size THEN @ + 1 ELSE @,
                            !.off = IF after = size THEN 0 ELSE after,
                            !.reads = Append(@, [T |-> T,
                                                 frame |-> ipc_pipe.next,
                                                 off |-> ipc_pipe.off,
                                                 result |-> result])]
    /\ UNCHANGED <<ipc_stream, ipc_call, schedVars, dns_call, proxyVars,
                   hostsVars, termVars, secVars, fwVars>>

IpcPipeNext ==
    \/ pipe_write_request
    \/ pipe_write_response
    \/ pipe_read_message

SpecIpcPipe == IpcInit /\ [][IpcPipeNext]_vars

(***************************************************************************)
(* Process termination (blocking/process/{linux,macos,windows}.rs)         *)
(***************************************************************************)
Platforms == {"linux", "macos", "windows"}

\* the process a pid names when terminate_process is called: whether it
\* exists, whether the caller may signal it, whether it exits on a
\* graceful request, and whether the kill command reports a failure in
\* words other than the two the macOS backend looks for
Targets ==
    [alive : BOOLEAN, permitted : BOOLEAN, obeys : BOOLEAN,
     other_failure : BOOLEAN]

\* terminate_process returns
Returned(t, result) == [t EXCEPT !.pc = "returned", !.result = result]

\* the request is added to the requests made so far
Requested(t, event) == [t EXCEPT !.events = Append(@, event)]

\* blocker.terminate_process(pid)
terminate_process ==
    /\ term = NoTerm
    /\ \E p \in Platforms : \E target \in Targets :
          term' = [pc |-> p, platform |-> p, target |-> target,
                   at_call |-> target, events |-> <<>>,
                   alive_at_check |-> FALSE, result |-> "none"]
    /\ UNCHANGED <<schedVars, dns_call, proxyVars, hostsVars, ipcVars,
                   fwVars, secVars>>

\* the process exits by itself after a graceful request reached it
process_exits ==
    /\ term.pc \notin {"idle", "returned"}
    /\ "graceful" \in { term.events[i] : i \in 1..Len(term.events) }
    /\ term.target.alive /\ term.target.obeys
    /\ term' = [term EXCEPT !.target.alive = FALSE]
    /\ UNCHANGED <<schedVars, dns_call, proxyVars, hostsVars, ipcVars,
                   fwVars, secVars>>

\* linux: kill(pid, Signal::SIGTERM) and the match on its result
linux_sigterm ==
    /\ term.pc = "linux"
    /\ term' =
          IF ~term.target.alive
          THEN Returned(Requested(term, "graceful_failed"), "NotFound")
          ELSE IF ~term.target.permitted
          THEN Returned(Requested(term, "graceful_failed"), "AccessDenied")
          ELSE [Requested(term, "graceful") EXCEPT !.pc = "linux_sleep"]
    /\ UNCHANGED <<schedVars, dns_call, proxyVars, hostsVars, ipcVars,
                   fwVars, secVars>>

\* linux: std::thread::sleep(100 ms)
linux_sleep ==
    /\ term.pc = "linux_sleep"
    /\ term' = [Requested(term, "wait") EXCEPT !.pc = "linux_check"]
    /\ UNCHANGED <<schedVars, dns_call, proxyVars, hostsVars, ipcVars,
                   fwVars, secVars>>

\* linux: kill(pid, None).is_ok()
linux_check ==
    /\ term.pc = "linux_check"
    /\ term' =
          IF term.target.alive
          THEN [Requested(term, "check") EXCEPT !.pc = "linux_sigkill",
                                                !.alive_at_check = TRUE]
          ELSE Returned(Requested(term, "check"), "Ok")
    /\ UNCHANGED <<schedVars, dns_call, proxyVars, hostsVars, ipcVars,
                   fwVars, secVars>>

\* linux: kill(pid, Signal::SIGKILL)
linux_sigkill ==
    /\ term.pc = "linux_sigkill"
    /\ term' =
          IF term.target.alive
          THEN [Returned(Requested(term, "force"), "Ok")
                   EXCEPT !.target.alive = FALSE]
          ELSE Returned(Requested(term, "force"), "TerminateFailed")
    /\ UNCHANGED <<schedVars, dns_call, proxyVars, hostsVars, ipcVars,
                   fwVars, secVars>>

\* macos: kill -TERM pid and the tests of its status and stderr
macos_term ==
    /\ term.pc = "macos"
    /\ term' =
          IF term.target.other_failure
          THEN [Requested(term, "graceful_failed") EXCEPT !.pc = "macos_kill"]
          ELSE IF ~term.target.alive
          THEN Returned(Requested(term, "graceful_failed"), "NotFound")
          ELSE IF ~term.target.permitted
          THEN Returned(Requested(term, "graceful_failed"), "AccessDenied")
          ELSE Returned(Requested(term, "graceful"), "Ok")
    /\ UNCHANGED <<schedVars, dns_call, proxyVars, hostsVars, ipcVars,
                   fwVars, secVars>>

\* macos: kill -9 pid after a failure of kill -TERM
macos_kill ==
    /\ term.pc = "macos_kill"
    /\ term' =
          IF term.target.alive /\ term.target.permitted
          THEN [Returned(Requested(term, "force"), "Ok")
                   EXCEPT !.target.alive = FALSE]
          ELSE Returned(Requested(term, "force"), "TerminateFailed")
    /\ UNCHANGED <<schedVars, dns_call, proxyVars, hostsVars, ipcVars,
                   fwVars, secVars>>

\* windows: OpenProcess(PROCESS_TERMINATE | PROCESS_QUERY_INFORMATION)
windows_open ==
    /\ term.pc = "windows"
    /\ term' =
          IF ~term.target.alive THEN Returned(term, "TerminateFailed")
          ELSE IF ~term.target.permitted THEN Returned(term, "AccessDenied")
          ELSE [term EXCEPT !.pc = "windows_terminate"]
    /\ UNCHANGED <<schedVars, dns_call, proxyVars, hostsVars, ipcVars,
                   fwVars, secVars>>

\* windows: TerminateProcess(handle, 1) and CloseHandle
windows_terminate ==
    /\ term.pc = "windows_terminate"
    /\ term' = [Returned(Requested(term, "force"), "Ok")
                   EXCEPT !.target.alive = FALSE]
    /\ UNCHANGED <<schedVars, dns_call, proxyVars, hostsVars, ipcVars,
                   fwVars, secVars>>

\* the caller takes the result
terminate_return ==
    /\ term.pc = "returned"
    /\ term' = NoTerm
    /\ UNCHANGED <<schedVars, dns_call, proxyVars, hostsVars, ipcVars,
                   fwVars, secVars>>

TermInit ==
    /\ schedules = <<>>
    /\ sched_ret = NoRet
    /\ dns_call = NoCall
    /\ ProxyNew
    /\ HostsUntouched
    /\ IpcUnused
    /\ TermUnused
    /\ SecUnused
    /\ FwUnused

TermNext ==
    \/ terminate_process
    \/ process_exits
    \/ linux_sigterm
    \/ linux_sleep
    \/ linux_check
    \/ linux_sigkill
    \/ macos_term
    \/ macos_kill
    \/ windows_open
    \/ windows_terminate
    \/ terminate_return

SpecTerm == TermInit /\ [][TermNext]_vars

\* --- linux: the processes a pid addresses ---
\* a u32 held as its two 16-bit halves
U32(hi, lo) == [hi |-> hi, lo |-> lo]

\* pid as i32
as_i32(pid) ==
    IF pid.hi >= 32768 THEN (pid.hi - 65536) * 65536 + pid.lo
    ELSE pid.hi * 65536 + pid.lo

\* pids handed to terminate_process: 0..5, 2^31 - 1, 2^31, 2^32 - 3 and
\* 2^32 - 1
PidInputs ==
    { U32(0, n) : n \in 0..5 }
        \cup { U32(32767, 65535), U32(32768, 0), U32(65535, 65533),
               U32(65535, 65535) }

\* the process that calls terminate_process, a process group leader
Caller == 2

\* process tables: init, the caller, and processes 3, 4 and 5, each
\* running or not, each in the caller's process group or in group 3
OtherPids == {3, 4, 5}
ProcessTables ==
    [OtherPids -> [alive : BOOLEAN, pgid : {Caller, 3}]]

\* the running processes of a table and their process groups
Running(table) == {1, Caller} \cup {p \in OtherPids : table[p].alive}
GroupOf(table, p) == IF p \in OtherPids THEN table[p].pgid ELSE p

\* an addressing that takes the pid for a process id whatever its sign
KillTargetsByPid(table, raw) == {p \in Running(table) : p = raw}

\* kill(2): the processes kill(raw, sig) addresses, the caller being root
KillTargets(table, raw) ==
    IF raw > 0 THEN {p \in Running(table) : p = raw}
    ELSE IF raw = 0
    THEN {p \in Running(table) : GroupOf(table, p) = GroupOf(table, Caller)}
    ELSE IF raw = -1 THEN Running(table) \ {1, Caller}
    ELSE {p \in Running(table) : GroupOf(table, p) + raw = 0}

\* linux: terminate_process(pid) up to the match on kill(pid, SIGTERM)
kill_sigterm ==
    /\ term = NoTerm
    /\ \E pid \in PidInputs : \E table \in ProcessTables :
          LET targets == KillTargets(table, as_i32(pid))
          IN  term' = [pc |-> IF targets = {} THEN "returned"
                              ELSE "linux_sleep",
                       pid |-> pid, table |-> table,
                       sigterm |-> targets, sigkill |-> {},
                       exited |-> {},
                       result |-> IF targets = {} THEN "NotFound"
                                  ELSE "none"]
    /\ UNCHANGED <<schedVars, dns_call, proxyVars, hostsVars, ipcVars,
                   fwVars, secVars>>

\* linux: during the sleep some of the processes signalled exit; then
\* kill(pid, None) and, if it finds a process, kill(pid, SIGKILL)
kill_sigkill ==
    /\ term.pc = "linux_sleep"
    /\ \E exited \in SUBSET term.sigterm :
          LET table == [p \in OtherPids |->
                           [term.table[p] EXCEPT
                               !.alive = @ /\ p \notin exited]]
              targets == KillTargets(table, as_i32(term.pid))
          IN  term' = [term EXCEPT
                          !.pc = IF Caller \in exited THEN "killed"
                                 ELSE "returned",
                          !.exited = exited,
                          !.sigkill = IF Caller \in exited THEN {}
                                      ELSE targets,
                          !.result = IF Caller \in exited THEN "none"
                                     ELSE "Ok"]
    /\ UNCHANGED <<schedVars, dns_call, proxyVars, hostsVars, ipcVars,
                   fwVars, secVars>>

\* the caller takes the result
kill_return ==
    /\ term.pc = "returned"
    /\ "sigterm" \in DOMAIN term
    /\ term' = NoTerm
    /\ UNCHANGED <<schedVars, dns_call, proxyVars, hostsVars, ipcVars,
                   fwVars, secVars>>

KillNext ==
    \/ kill_sigterm
    \/ kill_sigkill
    \/ kill_return

SpecKill == TermInit /\ [][KillNext]_vars

(***************************************************************************)
(* Firewall orchestrator (blocking/network/linux.rs): rules and commands   *)
(***************************************************************************)
\* CHAIN_NAME
CHAIN_NAME == "GAMEBLOCKER"

\* DOH_PROVIDER_IPS: its first IPv4 and its first IPv6 address
DOH_PROVIDER_IPS == <<"1.1.1.1", "2606:4700:4700::1111">>

\* ip.contains(':')
ContainsColon(ip) == ip \in {"2606:4700:4700::1111"}

\* vpn_ports: its first two entries
vpn_ports == << <<"1194", "udp">>, <<"1194", "tcp">> >>

\* rule specifications as iptables compares them
Rule(d, p, dport, j) == [d |-> d, p |-> p, dport |-> dport, j |-> j]
JumpRule == Rule("any", "any", "any", CHAIN_NAME)
ForeignRule == Rule("any", "any", "any", "ACCEPT")

\* a command line of a script: tool, option, chain and rule
Cmd(tool, op, chain, rule) ==
    [tool |-> tool, op |-> op, chain |-> chain, rule |-> rule]

\* "first 2>/dev/null || true" and "first 2>/dev/null || second"
OrTrue(first) == [first |-> first, alt |-> FALSE, second |-> first]
OrElse(first, second) == [first |-> first, alt |-> TRUE, second |-> second]

\* the position of the first rule of a chain equal to rule, 0 if none
FirstMatch(rules, rule) ==
    IF \E i \in 1..Len(rules) : rules[i] = rule
    THEN CHOOSE i \in 1..Len(rules) :
             rules[i] = rule /\ \A k \in 1..(i - 1) : rules[k] # rule
    ELSE 0

\* a sequence without its element at position i
Without(rules, i) ==
    SubSeq(rules, 1, i - 1) \o SubSeq(rules, i + 1, Len(rules))

\* iptables / ip6tables: the exit status of a command and the table it
\* leaves
RunCmd(c, t) ==
    LET fail == [ok |-> FALSE, table |-> t]
        done(table) == [ok |-> TRUE, table |-> table]
        managed == c.chain = CHAIN_NAME
        at == FirstMatch(t.OUTPUT, c.rule)
    IN  CASE c.op = "N" ->
               IF t.exists THEN fail
               ELSE done([t EXCEPT !.exists = TRUE, !.chain = <<>>])
          [] c.op = "F" ->
               IF ~t.exists THEN fail ELSE done([t EXCEPT !.chain = <<>>])
          [] c.op = "X" ->
               IF ~t.exists \/ t.chain # <<>>
                      \/ FirstMatch(t.OUTPUT, JumpRule) # 0
               THEN fail
               ELSE done([t EXCEPT !.exists = FALSE])
          [] c.op = "A" ->
               IF managed
               THEN IF ~t.exists THEN fail
                    ELSE done([t EXCEPT !.chain = Append(@, c.rule)])
               ELSE done([t EXCEPT !.OUTPUT = Append(@, c.rule)])
          [] c.op = "I" ->
               IF c.rule.j = CHAIN_NAME /\ ~t.exists THEN fail
               ELSE done([t EXCEPT !.OUTPUT = <<c.rule>> \o @])
          [] c.op = "C" -> IF at = 0 THEN fail ELSE done(t)
          [] c.op = "D" ->
               IF at = 0 THEN fail
               ELSE done([t EXCEPT !.OUTPUT = Without(@, at)])

\* a command run on the table of its tool
RunOn(c, tables) ==
    LET r == RunCmd(c, tables[c.tool])
    IN  [ok |-> r.ok, fw |-> [tables EXCEPT ![c.tool] = r.table]]

\* sh reads the next line of the script and runs it, `first || true` or
\* `first || second`, whatever the lines before it did: the lines left,
\* the firewall left and the number of commands that have failed
RunLine(sh) ==
    LET line == Head(sh.rest)
        a == RunOn(line.first, sh.fw)
        b == IF a.ok \/ ~line.alt THEN a ELSE RunOn(line.second, a.fw)
        n == (IF a.ok THEN 0 ELSE 1)
                 + (IF ~a.ok /\ line.alt /\ ~b.ok THEN 1 ELSE 0)
    IN  [rest |-> Tail(sh.rest), fw |-> b.fw, failed |-> sh.failed + n]

RECURSIVE RunLines(_)
RunLines(sh) == IF sh.rest = <<>> THEN sh ELSE RunLines(RunLine(sh))

\* sh -c script: the shell after the last line, with the firewall left and
\* the number of commands that failed
RunScript(script, tables, failed) ==
    RunLines([rest |-> script, fw |-> tables, failed |-> failed])

\* the tool for an address
ToolFor(ip) == IF ContainsColon(ip) THEN "ip6tables" ELSE "iptables"

\* "{tool} -A {chain} -d {ip} -p {p} --dport {dport} -j DROP || true"
DropLine(ip, p, dport) ==
    OrTrue(Cmd(ToolFor(ip), "A", CHAIN_NAME, Rule(ip, p, dport, "DROP")))

\* "{tool} {op} {chain} || true" for both tools
BothTools(op, chain, rule) ==
    << OrTrue(Cmd("iptables", op, chain, rule)),
       OrTrue(Cmd("ip6tables", op, chain, rule)) >>

\* an ensure-chain script that inserts the jump without checking for it
build_ensure_chain_script_blind ==
    BothTools("N", CHAIN_NAME, JumpRule)
        \o << OrTrue(Cmd("iptables", "I", "OUTPUT", JumpRule)),
              OrTrue(Cmd("ip6tables", "I", "OUTPUT", JumpRule)) >>

\* build_ensure_chain_script: create the chains, then check for the jump
\* and insert it if the check fails
build_ensure_chain_script ==
    BothTools("N", CHAIN_NAME, JumpRule)
        \o << OrElse(Cmd("iptables", "C", "OUTPUT", JumpRule),
                     Cmd("iptables", "I", "OUTPUT", JumpRule)),
              OrElse(Cmd("ip6tables", "C", "OUTPUT", JumpRule),
                     Cmd("ip6tables", "I", "OUTPUT", JumpRule)) >>

build_vpn_block_script ==
    [i \in 1..Len(vpn_ports) |->
        OrTrue(Cmd("iptables", "A", "OUTPUT",
                   Rule("any", vpn_ports[i][2], vpn_ports[i][1], "DROP")))]

build_vpn_unblock_script ==
    [i \in 1..Len(vpn_ports) |->
        OrTrue(Cmd("iptables", "D", "OUTPUT",
                   Rule("any", vpn_ports[i][2], vpn_ports[i][1], "DROP")))]

\* the script of block_doh_providers and block_doh_providers_direct
block_doh_script ==
    build_ensure_chain_script
        \o Concat([i \in 1..Len(DOH_PROVIDER_IPS) |->
                     << DropLine(DOH_PROVIDER_IPS[i], "tcp", "443"),
                        DropLine(DOH_PROVIDER_IPS[i], "udp", "443") >>])
        \o Concat([i \in 1..Len(DOH_PROVIDER_IPS) |->
                     << DropLine(DOH_PROVIDER_IPS[i], "udp", "53"),
                        DropLine(DOH_PROVIDER_IPS[i], "tcp", "53") >>])

\* the script of apply_network_blocking and apply_network_blocking_direct
apply_script ==
    build_ensure_chain_script
        \o Concat([i \in 1..Len(DOH_PROVIDER_IPS) |->
                     << DropLine(DOH_PROVIDER_IPS[i], "tcp", "443"),
                        DropLine(DOH_PROVIDER_IPS[i], "udp", "443"),
                        DropLine(DOH_PROVIDER_IPS[i], "udp", "53"),
                        DropLine(DOH_PROVIDER_IPS[i], "tcp", "53") >>])
        \o build_vpn_block_script

\* the script of unblock_doh_providers and unblock_doh_providers_direct
unblock_doh_script ==
    BothTools("F", CHAIN_NAME, JumpRule)
        \o BothTools("D", "OUTPUT", JumpRule)
        \o BothTools("X", CHAIN_NAME, JumpRule)

\* the script of remove_network_blocking and
\* remove_network_blocking_direct
remove_script == unblock_doh_script \o build_vpn_unblock_script

\* what can happen to the pkexec call, and to sh run directly
BatchOutcomes == {"ran", "no_pkexec", "spawn_failed", "cancelled", "denied"}
DirectOutcomes == {"ran", "spawn_failed"}

\* run_iptables_batch: result, firewall left and commands that failed.
\* pkexec exits with 126 when the dialog is dismissed and with 127 when
\* the authorization is refused
run_iptables_batch(script, outcome, tables) ==
    LET ran == RunScript(script, tables, 0)
    IN  CASE outcome \in {"no_pkexec", "spawn_failed", "cancelled"} ->
               [result |-> "Err", fw |-> tables, failed |-> 0]
          [] outcome = "denied" ->
               [result |-> "Ok", fw |-> tables, failed |-> 0]
          [] outcome = "ran" ->
               [result |-> "Ok", fw |-> ran.fw, failed |-> ran.failed]

\* run_iptables_direct
run_iptables_direct(script, outcome, tables) ==
    LET ran == RunScript(script, tables, 0)
    IN  IF outcome = "spawn_failed"
        THEN [result |-> "Err", fw |-> tables, failed |-> 0]
        ELSE [result |-> "Ok", fw |-> ran.fw, failed |-> ran.failed]

\* the call is over: the firewall it leaves and what it returned
FwReturn(op, kind, elevated, outcome, r, result) ==
    /\ fw' = r.fw
    /\ fw_call' = [op |-> op, kind |-> kind, elevated |-> elevated,
                   outcome |-> outcome, result |-> result,
                   failed |-> r.failed, before |-> fw,
                   prev_kind |-> fw_call.kind,
                   prev_outcome |-> fw_call.outcome]
    /\ fw_n' = fw_n + 1
    /\ fw_sh' = fw_sh

apply_network_blocking ==
    /\ fw_n < MaxFwOps
    /\ \E outcome \in BatchOutcomes :
          LET r == run_iptables_batch(apply_script, outcome, fw)
          IN  FwReturn("apply_network_blocking", "apply_full", TRUE, outcome, r,
                       r.result)
    /\ UNCHANGED <<schedVars, dns_call, proxyVars, hostsVars, ipcVars,
                   termVars, secVars>>

apply_network_blocking_direct ==
    /\ fw_n < MaxFwOps
    /\ \E outcome \in DirectOutcomes :
          LET r == run_iptables_direct(apply_script, outcome, fw)
          IN  FwReturn("apply_network_blocking_direct", "apply_full", FALSE, outcome, r,
                       r.result)
    /\ UNCHANGED <<schedVars, dns_call, proxyVars, hostsVars, ipcVars,
                   termVars, secVars>>

block_doh_providers ==
    /\ fw_n < MaxFwOps
    /\ \E outcome \in BatchOutcomes :
          LET r == run_iptables_batch(block_doh_script, outcome, fw)
          IN  FwReturn("block_doh_providers", "apply_doh", TRUE, outcome, r,
                       r.result)
    /\ UNCHANGED <<schedVars, dns_call, proxyVars, hostsVars, ipcVars,
                   termVars, secVars>>

block_doh_providers_direct ==
    /\ fw_n < MaxFwOps
    /\ \E outcome \in DirectOutcomes :
          LET r == run_iptables_direct(block_doh_script, outcome, fw)
          IN  FwReturn("block_doh_providers_direct", "apply_doh", FALSE, outcome, r,
                       r.result)
    /\ UNCHANGED <<schedVars, dns_call, proxyVars, hostsVars, ipcVars,
                   termVars, secVars>>

remove_network_blocking ==
    /\ fw_n < MaxFwOps
    /\ \E outcome \in BatchOutcomes :
          LET r == run_iptables_batch(remove_script, outcome, fw)
          IN  FwReturn("remove_network_blocking", "remove_full", TRUE, outcome, r,
                       r.result)
    /\ UNCHANGED <<schedVars, dns_call, proxyVars, hostsVars, ipcVars,
                   termVars, secVars>>

remove_network_blocking_direct ==
    /\ fw_n < MaxFwOps
    /\ \E outcome \in DirectOutcomes :
          LET r == run_iptables_direct(remove_script, outcome, fw)
          IN  FwReturn("remove_network_blocking_direct", "remove_full", FALSE, outcome, r,
                       r.result)
    /\ UNCHANGED <<schedVars, dns_call, proxyVars, hostsVars, ipcVars,
                   termVars, secVars>>

unblock_doh_providers ==
    /\ fw_n < MaxFwOps
    /\ \E outcome \in BatchOutcomes :
          LET r == run_iptables_batch(unblock_doh_script, outcome, fw)
          IN  FwReturn("unblock_doh_providers", "remove_doh", TRUE, outcome, r,
                       r.result)
    /\ UNCHANGED <<schedVars, dns_call, proxyVars, hostsVars, ipcVars,
                   termVars, secVars>>

unblock_doh_providers_direct ==
    /\ fw_n < MaxFwOps
    /\ \E outcome \in DirectOutcomes :
          LET r == run_iptables_direct(unblock_doh_script, outcome, fw)
          IN  FwReturn("unblock_doh_providers_direct", "remove_doh", FALSE, outcome, r,
                       r.result)
    /\ UNCHANGED <<schedVars, dns_call, proxyVars, hostsVars, ipcVars,
                   termVars, secVars>>

block_vpn_ports ==
    /\ fw_n < MaxFwOps
    /\ \E outcome \in BatchOutcomes :
          LET r == run_iptables_batch(build_vpn_block_script, outcome, fw)
          IN  FwReturn("block_vpn_ports", "block_vpn", TRUE, outcome, r,
                       r.result)
    /\ UNCHANGED <<schedVars, dns_call, proxyVars, hostsVars, ipcVars,
                   termVars, secVars>>

\* unblock_vpn_ports: the result of the batch is dropped
unblock_vpn_ports ==
    /\ fw_n < MaxFwOps
    /\ \E outcome \in BatchOutcomes :
          LET r == run_iptables_batch(build_vpn_unblock_script, outcome, fw)
          IN  FwReturn("unblock_vpn_ports", "unblock_vpn", TRUE, outcome, r,
                       "Ok")
    /\ UNCHANGED <<schedVars, dns_call, proxyVars, hostsVars, ipcVars,
                   termVars, secVars>>

\* OUTPUT chains as other software left them
ForeignOutputs == {<<>>, <<ForeignRule>>}

FwInit ==
    /\ schedules = <<>>
    /\ sched_ret = NoRet
    /\ dns_call = NoCall
    /\ ProxyNew
    /\ HostsUntouched
    /\ IpcUnused
    /\ TermUnused
    /\ SecUnused
    /\ \E o4 \in ForeignOutputs : \E o6 \in ForeignOutputs :
          FwStart(o4, o6)

FwNext ==
    \/ apply_network_blocking
    \/ apply_network_blocking_direct
    \/ block_doh_providers
    \/ block_doh_providers_direct
    \/ remove_network_blocking
    \/ remove_network_blocking_direct
    \/ unblock_doh_providers
    \/ unblock_doh_providers_direct
    \/ block_vpn_ports
    \/ unblock_vpn_ports

SpecFw == FwInit /\ [][FwNext]_vars

\* --- two scripts at the same time ---
\* sh -c script in a process of its own: the lines not yet read and the
\* command after `||` still to be run
Shell(script) ==
    [busy |-> TRUE, rest |-> script, pending |-> <<>>, failed |-> 0]

\* a call that ends without a script having run
FwFailed(op, elevated, outcome, result) ==
    /\ fw_call' = [op |-> op, kind |-> "apply_full", elevated |-> elevated,
                   outcome |-> outcome, result |-> result, failed |-> 0,
                   before |-> fw, prev_kind |-> fw_call.kind,
                   prev_outcome |-> fw_call.outcome]
    /\ UNCHANGED <<fw, fw_sh>>

\* apply_network_blocking in the client: pkexec spawns sh with the script
\* and the call waits for it
spawn_apply_network_blocking ==
    /\ fw_n < MaxParOps
    /\ ~fw_sh["client"].busy
    /\ \E outcome \in BatchOutcomes :
          IF outcome = "ran"
          THEN /\ fw_sh' = [fw_sh EXCEPT !["client"] = Shell(apply_script)]
               /\ UNCHANGED <<fw, fw_call>>
          ELSE FwFailed("apply_network_blocking", TRUE, outcome,
                        run_iptables_batch(apply_script, outcome, fw).result)
    /\ fw_n' = fw_n + 1
    /\ UNCHANGED <<schedVars, dns_call, proxyVars, hostsVars, ipcVars,
                   termVars, secVars>>

\* apply_network_blocking_direct in the daemon: sh is spawned with the
\* script and the call waits for it
spawn_apply_network_blocking_direct ==
    /\ fw_n < MaxParOps
    /\ ~fw_sh["daemon"].busy
    /\ \E outcome \in DirectOutcomes :
          IF outcome = "ran"
          THEN /\ fw_sh' = [fw_sh EXCEPT !["daemon"] = Shell(apply_script)]
               /\ UNCHANGED <<fw, fw_call>>
          ELSE FwFailed("apply_network_blocking_direct", FALSE, outcome,
                        run_iptables_direct(apply_script, outcome, fw).result)
    /\ fw_n' = fw_n + 1
    /\ UNCHANGED <<schedVars, dns_call, proxyVars, hostsVars, ipcVars,
                   termVars, secVars>>

\* one sh process runs its next command: the command after `||` of the
\* line it is in, or the first command of the next line
sh_command ==
    /\ \E r \in Runners :
          LET proc == fw_sh[r] IN
          /\ proc.busy
          /\ proc.pending # <<>> \/ proc.rest # <<>>
          /\ IF proc.pending # <<>>
             THEN LET b == RunOn(proc.pending[1], fw)
                  IN  /\ fw' = b.fw
                      /\ fw_sh' = [fw_sh EXCEPT ![r] =
                                     [proc EXCEPT !.pending = <<>>,
                                        !.failed = @ + (IF b.ok THEN 0
                                                        ELSE 1)]]
             ELSE LET line == Head(proc.rest)
                      a == RunOn(line.first, fw)
                  IN  /\ fw' = a.fw
                      /\ fw_sh' = [fw_sh EXCEPT ![r] =
                                     [proc EXCEPT !.rest = Tail(@),
                                        !.pending = IF ~a.ok /\ line.alt
                                                    THEN <<line.second>>
                                                    ELSE <<>>,
                                        !.failed = @ + (IF a.ok THEN 0
                                                        ELSE 1)]]
    /\ UNCHANGED <<fw_call, fw_n, schedVars, dns_call, proxyVars, hostsVars,
                   ipcVars, termVars, secVars>>

\* sh has run the last line: wait_with_output returns and the call
\* returns Ok
sh_exit ==
    /\ \E r \in Runners :
          LET proc == fw_sh[r] IN
          /\ proc.busy
          /\ proc.pending = <<>> /\ proc.rest = <<>>
          /\ fw_sh' = [fw_sh EXCEPT ![r] = NoShell]
          /\ fw_call' = [op |-> IF r = "client"
                                THEN "apply_network_blocking"
                                ELSE "apply_network_blocking_direct",
                         kind |-> "apply_full", elevated |-> r = "client",
                         outcome |-> "ran", result |-> "Ok",
                         failed |-> proc.failed, before |-> fw,
                         prev_kind |-> fw_call.kind,
                         prev_outcome |-> fw_call.outcome]
    /\ UNCHANGED <<fw, fw_n, schedVars, dns_call, proxyVars, hostsVars,
                   ipcVars, termVars, secVars>>

FwParNext ==
    \/ spawn_apply_network_blocking
    \/ spawn_apply_network_blocking_direct
    \/ sh_command
    \/ sh_exit

SpecFwPar == FwInit /\ [][FwParNext]_vars

(***************************************************************************)
(* Password-protected uninstall (security/uninstall_protection.rs)         *)
(***************************************************************************)
\* passwords typed and passwords the parent has set
Passwords == {"", "parent", "child"}
Salts == {1, 2}

\* crypto::hash_password: the PHC string of a password under a salt
hash_password(password, salt) ==
    [alg |-> "argon2id", salt |-> salt, of |-> password]

\* a stored string that PasswordHash::new does not parse
UnparsableHash == [alg |-> "none", salt |-> 0, of |-> ""]

\* what ConfigManager finds: a configuration holding the hash of the
\* parent's password, one holding an unparsable hash, or none it can open
\* or load
Stores(parent) ==
    { [state |-> "loaded", password_hash |-> hash_password(parent, salt)] :
         salt \in Salts }
       \cup { [state |-> "loaded", password_hash |-> UnparsableHash],
              [state |-> "new_failed", password_hash |-> UnparsableHash],
              [state |-> "load_failed", password_hash |-> UnparsableHash] }

SecOk(value) == [kind |-> "Ok", value |-> value]
SecErr(err) == [kind |-> "Err", err |-> err]

\* crypto::verify_password(password, hash)
verify_password(password, hash) ==
    IF hash.alg # "argon2id" THEN SecErr("HashingFailed")
    ELSE SecOk(hash = hash_password(password, hash.salt))

\* a check that hands the comparison's outcome to the caller
verify_uninstall_password_as_bool(password, store) ==
    IF store.state # "loaded" THEN SecErr("ConfigError")
    ELSE LET valid == verify_password(password, store.password_hash)
         IN  IF valid.kind = "Err" THEN SecErr("ConfigError")
             ELSE SecOk(valid.value)

\* verify_uninstall_password(password)
verify_uninstall_password(password, store) ==
    IF store.state # "loaded" THEN SecErr("ConfigError")
    ELSE LET valid == verify_password(password, store.password_hash)
         IN  IF valid.kind = "Err" THEN SecErr("ConfigError")
             ELSE IF valid.value THEN SecOk(TRUE)
             ELSE SecErr("AccessDenied")

\* uninstall_with_password(password) is called and verifies the password;
\* an Err of the verification is returned by `?`
uninstall_with_password ==
    /\ uninstall.pc = "idle"
    /\ \E platform \in Platforms, parent \in Passwords,
          password \in Passwords, protected \in BOOLEAN :
          \E store \in Stores(parent) :
             LET verified == verify_uninstall_password(password, store)
             IN  uninstall' =
                    [pc |-> IF verified.kind = "Err" THEN "returned"
                            ELSE "verified",
                     platform |-> platform, parent |-> parent,
                     password |-> password, store |-> store,
                     protected |-> protected, installed |-> TRUE,
                     steps |-> <<>>,
                     result |-> IF verified.kind = "Err" THEN verified
                                ELSE SecOk("pending")]
    /\ UNCHANGED <<schedVars, dns_call, proxyVars, hostsVars, ipcVars,
                   termVars, fwVars>>

\* disable_protection(): the platform's protections are taken off; no step
\* of it returns an error
disable_protection ==
    /\ uninstall.pc = "verified"
    /\ uninstall' = [uninstall EXCEPT !.pc = "disabled",
                        !.protected = FALSE,
                        !.steps = Append(@, "disable_protection")]
    /\ UNCHANGED <<schedVars, dns_call, proxyVars, hostsVars, ipcVars,
                   termVars, fwVars>>

\* uninstall_windows / uninstall_macos / uninstall_linux: every command's
\* outcome is dropped and Ok(()) is returned
platform_uninstall ==
    /\ uninstall.pc = "disabled"
    /\ uninstall' = [uninstall EXCEPT !.pc = "returned",
                        !.installed = FALSE,
                        !.steps = Append(@, "uninstall_" \o uninstall.platform),
                        !.result = SecOk("unit")]
    /\ UNCHANGED <<schedVars, dns_call, proxyVars, hostsVars, ipcVars,
                   termVars, fwVars>>

\* the caller takes the result
uninstall_return ==
    /\ uninstall.pc = "returned"
    /\ uninstall' = NoUninstall
    /\ UNCHANGED <<schedVars, dns_call, proxyVars, hostsVars, ipcVars,
                   termVars, fwVars>>

SecInit ==
    /\ schedules = <<>>
    /\ sched_ret = NoRet
    /\ dns_call = NoCall
    /\ ProxyNew
    /\ HostsUntouched
    /\ IpcUnused
    /\ TermUnused
    /\ SecUnused
    /\ FwUnused

SecNext ==
    \/ uninstall_with_password
    \/ disable_protection
    \/ platform_uninstall
    \/ uninstall_return

SpecSec == SecInit /\ [][SecNext]_vars

(***************************************************************************)
(* Properties of the schedule evaluator                                    *)
(***************************************************************************)
\* window containment as the specification words it
WindowContains(start, end, now) ==
    IF start <= end THEN start <= now /\ now < end
                    ELSE now >= start \/ now < end

\* the entry is enabled, active on the weekday and its window contains the
\* minute
EntryMatches(s, day, now) ==
    /\ s.enabled
    /\ day \in s.days
    /\ WindowContains(s.start_minutes, s.end_minutes, now)

Evaluated == sched_ret.kind = "bool"

\* C1: should_block_now returns the blocking_enabled flag of the first
\* entry, in stored order, that is enabled, active on the current weekday
\* and whose window contains the current minute; entries after it do not
\* change the result.
C1_FirstMatchDecides ==
    Evaluated =>
        \A i \in 1..Len(schedules) :
            ( /\ EntryMatches(schedules[i], sched_ret.day, sched_ret.minutes)
              /\ \A j \in 1..(i - 1) :
                    ~EntryMatches(schedules[j], sched_ret.day,
                                  sched_ret.minutes) )
            => /\ sched_ret.result = schedules[i].blocking_enabled
               /\ sched_ret.matched = i

\* two entries match the clock reading, the first says "do not block" and
\* the second says "block"
C1_Witness ==
    /\ Evaluated
    /\ Len(schedules) = 2
    /\ EntryMatches(schedules[1], sched_ret.day, sched_ret.minutes)
    /\ EntryMatches(schedules[2], sched_ret.day, sched_ret.minutes)
    /\ ~schedules[1].blocking_enabled
    /\ schedules[2].blocking_enabled
    /\ sched_ret.result = FALSE

\* C2: should_block_now returns true when the entry list is empty and
\* whenever no enabled entry's day set and window contain the current
\* weekday and minute, including when every entry is disabled.
C2_DefaultIsBlock ==
    Evaluated =>
        ( (\A i \in 1..Len(schedules) :
              ~EntryMatches(schedules[i], sched_ret.day, sched_ret.minutes))
          => sched_ret.result = TRUE )

\* an evaluation of a non-empty list in which no entry matches although one
\* enabled entry would have turned blocking off
C2_Witness ==
    /\ Evaluated
    /\ Len(schedules) = 2
    /\ ~schedules[1].enabled
    /\ schedules[2].enabled /\ ~schedules[2].blocking_enabled
    /\ \A i \in 1..Len(schedules) :
          ~EntryMatches(schedules[i], sched_ret.day, sched_ret.minutes)
    /\ sched_ret.result = TRUE

\* C3: an entry's window contains minute now iff start <= now < end when
\* start <= end, and iff now >= start or now < end when start > end; a
\* 21:00-07:00 entry active on the current weekday matches at 23:30 and at
\* 03:00 and does not match at 12:00.
C3_WindowContainment ==
    Evaluated =>
        /\ \A i \in 1..Len(schedules) :
              ( /\ sched_ret.matched = 0 \/ i <= sched_ret.matched
                /\ schedules[i].enabled
                /\ sched_ret.day \in schedules[i].days )
              => ( sched_ret.matched = i
                     <=> WindowContains(schedules[i].start_minutes,
                                        schedules[i].end_minutes,
                                        sched_ret.minutes) )
        /\ ( /\ Len(schedules) >= 1
             /\ schedules[1].enabled
             /\ sched_ret.day \in schedules[1].days
             /\ schedules[1].start_minutes = 21 * 60
             /\ schedules[1].end_minutes = 7 * 60 )
           => /\ sched_ret.minutes \in {23 * 60 + 30, 3 * 60}
                    => sched_ret.matched = 1
              /\ sched_ret.minutes = 12 * 60 => sched_ret.matched # 1

\* the bedtime window is evaluated at 03:00 on a day it is active and matches
C3_Witness ==
    /\ Evaluated
    /\ Len(schedules) >= 1
    /\ schedules[1].enabled
    /\ schedules[1].start_minutes = 21 * 60
    /\ schedules[1].end_minutes = 7 * 60
    /\ sched_ret.day \in schedules[1].days
    /\ sched_ret.minutes = 3 * 60
    /\ sched_ret.matched = 1

\* C37: for an overnight entry (start > end) both the evening part
\* (now >= start) and the after-midnight part (now < end) are matched only
\* on weekdays of the entry's own day set: an entry with days = {Monday},
\* 21:00-07:00 matches on Monday at 03:00 and in the evening and does not
\* match on Tuesday at 03:00.
C37_OvernightOwnDaySet ==
    (Evaluated /\ Len(schedules) >= 1 /\ schedules[1].enabled
       /\ schedules[1].start_minutes > schedules[1].end_minutes)
    => /\ sched_ret.matched = 1
            <=> /\ sched_ret.day \in schedules[1].days
                /\ \/ sched_ret.minutes >= schedules[1].start_minutes
                   \/ sched_ret.minutes < schedules[1].end_minutes
       /\ ( /\ schedules[1].days = {1}
            /\ schedules[1].start_minutes = 21 * 60
            /\ schedules[1].end_minutes = 7 * 60 )
          => /\ (sched_ret.day = 1
                   /\ sched_ret.minutes \in {3 * 60, 21 * 60, 23 * 60 + 30})
                  => sched_ret.matched = 1
             /\ (sched_ret.day = 2 /\ sched_ret.minutes = 3 * 60)
                  => sched_ret.matched # 1

\* the Monday 21:00-07:00 entry evaluated on Tuesday at 03:00: no match,
\* the default is returned
C37_Witness ==
    /\ Evaluated
    /\ Len(schedules) = 1
    /\ schedules[1].enabled
    /\ schedules[1].days = {1}
    /\ schedules[1].start_minutes = 21 * 60
    /\ schedules[1].end_minutes = 7 * 60
    /\ sched_ret.day = 2
    /\ sched_ret.minutes = 3 * 60
    /\ sched_ret.matched = 0
    /\ sched_ret.result = TRUE

\* a minutes_until_change result is pending
Computed == sched_ret.kind = "minutes"

\* the minute offsets the entry contributes at the clock reading: its start
\* and end boundaries later today, its start boundary tomorrow
BoundaryOffsets(schedule, current_day, current_minutes) ==
    { b - current_minutes :
        b \in { x \in {schedule.start_minutes, schedule.end_minutes} :
                  current_day \in schedule.days /\ x > current_minutes } }
    \cup { (24 * 60 - current_minutes) + schedule.start_minutes :
             d \in { x \in {(current_day + 1) % 7} : x \in schedule.days } }

AllOffsets ==
    UNION { BoundaryOffsets(schedules[i], sched_ret.day, sched_ret.minutes) :
              i \in { j \in 1..Len(schedules) : schedules[j].enabled } }

\* C26: minutes_until_change returns the minimum, over the enabled entries,
\* of the offsets to the start and end boundaries later today (today in the
\* day set) and to the start boundary tomorrow (tomorrow in the day set); it
\* returns none when there are no entries.
C26_MinimumOfBoundaryOffsets ==
    Computed =>
        /\ AllOffsets # {} =>
              /\ sched_ret.some
              /\ sched_ret.value \in AllOffsets
              /\ \A d \in AllOffsets : sched_ret.value <= d
        /\ schedules = <<>> => ~sched_ret.some

\* the minimum is the end boundary of the second entry today, below the
\* tomorrow offset of the first
C26_Witness ==
    /\ Computed
    /\ Len(schedules) = 2
    /\ schedules[1].enabled /\ schedules[2].enabled
    /\ sched_ret.day \notin schedules[1].days
    /\ (sched_ret.day + 1) % 7 \in schedules[1].days
    /\ sched_ret.day \in schedules[2].days
    /\ sched_ret.some
    /\ sched_ret.value = schedules[2].end_minutes - sched_ret.minutes
    /\ sched_ret.value < schedules[2].start_minutes - sched_ret.minutes

\* the clock reading k minutes after the one of the pending result
DayAfter(k) == (sched_ret.day + (sched_ret.minutes + k) \div (24 * 60)) % 7
MinuteAfter(k) == (sched_ret.minutes + k) % (24 * 60)

\* should_block_now for the stored entries k minutes later
BlockAfter(k) == Evaluate(schedules, DayAfter(k), MinuteAfter(k)).result

\* C27: when minutes_until_change returns m, should_block_now takes the same
\* value at every minute strictly before now+m; when it returns none,
\* should_block_now does not change at any minute of the week that follows.
C27_NoChangeBefore ==
    Computed =>
        /\ sched_ret.some =>
              \A k \in 0..(sched_ret.value - 1) : BlockAfter(k) = BlockAfter(0)
        /\ ~sched_ret.some =>
              \A k \in 0..(7 * 24 * 60) : BlockAfter(k) = BlockAfter(0)

(***************************************************************************)
(* Properties of the DNS packet functions                                  *)
(***************************************************************************)
Parsed == dns_call.fn = "parse"
Synthesized == dns_call.fn = "nxdomain" /\ dns_call.out.kind = "some"

\* walking the labels from pos, some length byte reaches past the end of the
\* packet
RECURSIVE LabelOverruns(_, _)
LabelOverruns(query, pos) ==
    /\ pos < Len(query)
    /\ query[pos + 1] # 0
    /\ \/ pos + 1 + query[pos + 1] > Len(query)
       \/ LabelOverruns(query, pos + 1 + query[pos + 1])

\* C6: parse_dns_domain is total on arbitrary byte sequences: it never
\* indexes past the end of the packet, and it returns no domain for every
\* packet shorter than 13 bytes and whenever a label's length byte would
\* extend past the end of the packet.
C6_ParseTotal ==
    Parsed =>
        /\ dns_call.out.kind \in {"none", "some"}
        /\ Len(dns_call.query) < 13 => dns_call.out = None
        /\ LabelOverruns(dns_call.query, 12) => dns_call.out = None

\* a packet whose second label is cut off by the end of the packet
C6_Witness ==
    /\ Parsed
    /\ Len(dns_call.query) >= 16
    /\ dns_call.query[13] = 1
    /\ dns_call.query[14] = 97
    /\ LabelOverruns(dns_call.query, 14)
    /\ dns_call.out = None

\* the labels written one after the other with a '.' before all but the
\* first
DottedName(labels) ==
    Concat([i \in 1..Len(labels) |->
                IF i = 1 THEN labels[i] ELSE <<46>> \o labels[i]])

\* C7: a query made of a 12-byte header, length-prefixed labels (each 1 to
\* 63 bytes of valid text without '.'), a zero-length terminator and
\* QTYPE/QCLASS decodes to exactly the labels joined with '.'.
C7_EncodedNameRoundTrip ==
    (Parsed /\ dns_call.labels # <<>>) =>
        dns_call.out = Some(DottedName(dns_call.labels))

\* a name of two labels, the first holding a two-byte character and the
\* second 63 bytes long, decoded to 3 + 1 + 63 bytes
C7_Witness ==
    /\ Parsed
    /\ Len(dns_call.labels) = 2
    /\ dns_call.labels[1] = <<97, 195, 169>>
    /\ dns_call.labels[2] = LongLabel
    /\ dns_call.out.kind = "some"
    /\ Len(dns_call.out.value) = 67
    /\ SubSeq(dns_call.out.value, 1, 5) = <<97, 195, 169, 46, 97>>

\* C8: every synthesized NXDOMAIN reply has response-code nibble 3 and
\* answer count 0, has the length of the query, and equals the query in the
\* transaction id (bytes 0-1) and from offset 12 onward.
C8_NxdomainShape ==
    Synthesized =>
        LET q == dns_call.query
            r == dns_call.out.value
        IN  /\ Len(r) = Len(q)
            /\ At(r, 3) % 16 = 3
            /\ At(r, 6) = 0 /\ At(r, 7) = 0
            /\ At(r, 0) = At(q, 0) /\ At(r, 1) = At(q, 1)
            /\ \A i \in 12..(Len(q) - 1) : At(r, i) = At(q, i)

\* a reply to a query that carries a question section, a transaction id and
\* a non-zero answer count
C8_Witness ==
    /\ Synthesized
    /\ Len(dns_call.query) = 12 + MaxBody
    /\ At(dns_call.query, 0) = 18
    /\ At(dns_call.query, 7) = 1
    /\ At(dns_call.query, 12) = 1 /\ At(dns_call.query, 13) = 97
    /\ At(dns_call.out.value, 7) = 0
    /\ At(dns_call.out.value, 13) = 97

\* flag bits of the header: QR and RD in byte 2, RA in byte 3
QR(msg) == At(msg, 2) \div 128
RD(msg) == At(msg, 2) % 2
RA(msg) == At(msg, 3) \div 128

\* C9 as stated: in a synthesized reply the QR and RA bits are set and the
\* RD bit equals the RD bit of the query.
C9_RdPreserved ==
    Synthesized =>
        /\ QR(dns_call.out.value) = 1
        /\ RA(dns_call.out.value) = 1
        /\ RD(dns_call.out.value) = RD(dns_call.query)

\* C9 amended: in a synthesized reply the QR, RA and RD bits are all set,
\* whatever the RD bit of the query; RD equals the query's only when the
\* query had it set.
C9_RdAlwaysSet ==
    Synthesized =>
        /\ QR(dns_call.out.value) = 1
        /\ RA(dns_call.out.value) = 1
        /\ RD(dns_call.out.value) = 1
        /\ (RD(dns_call.out.value) = RD(dns_call.query))
              <=> (RD(dns_call.query) = 1)

\* a reply to a query that did not ask for recursion
C9_Witness ==
    /\ Synthesized
    /\ RD(dns_call.query) = 0
    /\ RD(dns_call.out.value) = 1

\* walking the labels from pos, a zero-length label is met inside the packet
RECURSIVE TerminatorInside(_, _)
TerminatorInside(query, pos) ==
    /\ pos < Len(query)
    /\ \/ query[pos + 1] = 0
       \/ /\ pos + 1 + query[pos + 1] <= Len(query)
          /\ TerminatorInside(query, pos + 1 + query[pos + 1])

\* C29: parse_dns_domain returns a domain only when the label sequence
\* starting at offset 12 is terminated by a zero-length label inside the
\* packet; a name that runs to the end of the packet without a terminator
\* yields no domain.
C29_DomainOnlyIfTerminated ==
    (Parsed /\ dns_call.out.kind = "some")
        => TerminatorInside(dns_call.query, 12)

(***************************************************************************)
(* Properties of the DNS proxy                                             *)
(***************************************************************************)
Serving == io.stage # "none"
Handled == io.stage = "done"

\* the message is an NXDOMAIN answer to the query: response bit set, response
\* code 3, same transaction id and question
IsNxdomainFor(bytes, query) ==
    /\ Len(bytes) = Len(query)
    /\ Len(bytes) >= 12
    /\ At(bytes, 2) \div 128 = 1
    /\ At(bytes, 3) % 16 = 3
    /\ At(bytes, 0) = At(query, 0) /\ At(bytes, 1) = At(query, 1)
    /\ SubSeq(bytes, 13, Len(bytes)) = SubSeq(query, 13, Len(query))

\* C4: for every datagram whose decoded query name is classified as blocked,
\* the proxy sends an NXDOMAIN reply to the datagram's sender and sends
\* nothing to the upstream resolver for it.
C4_BlockedAnsweredLocally ==
    (Serving /\ io.verdict = "blocked") =>
        /\ io.to_upstream = <<>>
        /\ srv.pc \notin {"forward", "await_reply"}
        /\ Handled =>
              /\ Len(io.to_client) = 1
              /\ io.to_client[1].to = io.src
              /\ IsNxdomainFor(io.to_client[1].bytes, io.dgram)

\* a query for a blocked name from the second client has been answered
C4_Witness ==
    /\ Handled
    /\ io.verdict = "blocked"
    /\ io.src = "c2"
    /\ io.parsed = Some(NameB)
    /\ Len(io.to_client) = 1
    /\ io.to_upstream = <<>>

\* C5 as stated: every classification uses a blocked set and an allowed set
\* that belong to one and the same policy version, also while a policy
\* update replaces both sets.
C5_ClassifiedAgainstOnePolicy ==
    (Serving /\ io.verdict # "none") =>
        \E p \in Policies :
            /\ io.used_blocked = p.blocked
            /\ io.used_allowed = p.allowed

\* C10 as stated: a datagram from which no domain can be decoded is never
\* dropped and never answered with NXDOMAIN; the proxy forwards it
\* unmodified to the upstream resolver.
C10_UndecodableForwardedUnmodified ==
    (Serving /\ parse_dns_domain(io.dgram).kind # "some") =>
        /\ \A i \in 1..Len(io.to_client) :
              ~IsNxdomainFor(io.to_client[i].bytes, io.dgram)
        /\ \A i \in 1..Len(io.to_upstream) : io.to_upstream[i] = io.dgram
        /\ Handled => Len(io.to_upstream) = 1

\* positions of the serve task inside the loop of start()
LoopPcs == {"check", "recv", "read_blocked", "read_allowed", "nxdomain",
            "forward", "await_reply"}

\* C11 as stated: once start() has bound its socket the serve loop ends only
\* because stop() was called; no receive error, upstream socket or send
\* error or upstream timeout makes start() return.
C11_LoopEndsOnlyOnStop ==
    [][ (srv.pc \in LoopPcs /\ srv'.pc = "returned")
            => (srv.pc = "check" /\ ~running /\ srv'.result = "Ok") ]_vars

\* C12 as stated: after stop() completes while the serve loop is running,
\* the loop eventually exits and start() returns, whether or not another
\* datagram arrives.  (The claim asks for the result Ok besides; the return
\* itself is what is stated here.)
C12_StopEndsLoop ==
    (~running /\ srv.pc \in LoopPcs) ~> (srv.pc = "returned")

\* C13 as stated: for every query that is not blocked the bytes sent to the
\* upstream resolver equal the received datagram and the bytes relayed to
\* the client equal the upstream reply, whatever the sizes of the two.
C13_ForwardedVerbatim ==
    (Serving /\ io.verdict # "blocked") =>
        /\ \A i \in 1..Len(io.to_upstream) : io.to_upstream[i] = io.dgram
        /\ \A i \in 1..Len(io.to_client) : io.to_client[i].bytes = io.reply

(***************************************************************************)
(* Properties of the hosts-file reconciler                                 *)
(***************************************************************************)
\* positions of the lines holding MARKER_START, MARKER_END
StartsOf(lines) == { i \in 1..Len(lines) : ContainsStart(lines[i]) }
EndsOf(lines) == { i \in 1..Len(lines) : ContainsEnd(lines[i]) }

NoMarker(lines) == StartsOf(lines) = {} /\ EndsOf(lines) = {}

\* exactly one START, followed by exactly one END
OneRegion(lines) ==
    /\ Cardinality(StartsOf(lines)) = 1
    /\ Cardinality(EndsOf(lines)) = 1
    /\ \A i \in StartsOf(lines) : \A j \in EndsOf(lines) : i < j

\* no line occurs twice between START and END
NoDuplicateEntry(lines) ==
    \A s \in StartsOf(lines) : \A e \in EndsOf(lines) :
        \A i, j \in (s + 1)..(e - 1) : lines[i] = lines[j] => i = j

\* the last completed operation
LastOp == hosts_log[Len(hosts_log)]
HostsIdle == hosts_op = NoHostsOp

\* C14: after apply(D) followed by apply(D), D not empty, the file has
\* exactly one START and one END marker and no line between them occurs
\* twice
C14_ApplyTwiceOneRegion ==
    (/\ HostsIdle
     /\ Len(hosts_log) = 2
     /\ hosts_log[1] = hosts_log[2]
     /\ LastOp.op = "apply" /\ LastOp.domains # {})
        => OneRegion(hosts_file) /\ NoDuplicateEntry(hosts_file)

\* C15: after apply of the empty set the file holds no marker, and after
\* a clear that follows it holds none either
C15_EmptyApplyLeavesNoMarker ==
    /\ (/\ HostsIdle /\ hosts_log # <<>>
        /\ LastOp = [op |-> "apply", domains |-> {}])
           => NoMarker(hosts_file)
    /\ (/\ HostsIdle /\ Len(hosts_log) = 2
        /\ hosts_log[1] = [op |-> "apply", domains |-> {}]
        /\ hosts_log[2].op = "clear")
           => NoMarker(hosts_file)

\* C16: no step of apply or clear, and no crash within one, takes a file
\* without a torn marker pair to a file with one: whenever the file can be
\* read it holds no marker or one START followed by its END
C16_NeverTornMarkers ==
    [][ (NoMarker(hosts_file) \/ OneRegion(hosts_file))
            => (NoMarker(hosts_file') \/ OneRegion(hosts_file')) ]_vars

\* C17: get_blocked_domains called after a completed apply(D), D not
\* empty, returns exactly D
C17_ReadBackIsApplied ==
    (/\ hosts_got # NoGot /\ hosts_log # <<>>
     /\ LastOp.op = "apply" /\ LastOp.domains # {})
        => hosts_got.domains = LastOp.domains

\* line i lies between a START marker line and the next END marker line,
\* the two marker lines included
InMarkedRange(lines, i) ==
    \E s \in 1..i :
        /\ ContainsStart(lines[s])
        /\ \A j \in (s + 1)..(i - 1) : ~ContainsEnd(lines[j])
        /\ \E e \in i..Len(lines) : e > s /\ ContainsEnd(lines[e])

\* the non-blank lines from position i on that lie in no marked range
RECURSIVE OutsideFrom(_, _)
OutsideFrom(lines, i) ==
    IF i > Len(lines) THEN <<>>
    ELSE IF lines[i].k # "blank" /\ ~InMarkedRange(lines, i)
         THEN <<lines[i]>> \o OutsideFrom(lines, i + 1)
         ELSE OutsideFrom(lines, i + 1)

IsNonBlank(line) == line.k # "blank"

\* what the operation writes apart from the section it has built itself
WrittenOutsideNewSection ==
    IF hosts_op.op = "apply"
    THEN SubSeq(hosts_op.content, 1,
                Len(hosts_op.content)
                    - Len(NewSection(CHOOSE o \in Orders(hosts_op.domains) :
                                         TRUE)))
    ELSE hosts_op.content

\* C28: apply and clear delete only the lines between a START marker line
\* and the next END marker line (inclusive); every other non-blank line of
\* the file read is written back, in the original order.
C28_OnlyMarkedRangesDeleted ==
    hosts_op.pc = "writing" =>
        SelectSeq(WrittenOutsideNewSection, IsNonBlank)
            = OutsideFrom(hosts_op.before, 1)

(***************************************************************************)
(* Properties of the IPC protocol                                          *)
(***************************************************************************)
\* read_message has returned for a stream written by write_message
RoundTripped == ipc_call.pc = "read" /\ ipc_call.from.pc = "written"

\* the value read equals the value written
ReadBackEqual ==
    /\ ipc_call.result.kind = "Ok"
    /\ ipc_call.result.value = ipc_call.from.message

\* C18 as stated: every request and every response written by
\* write_message is read back by read_message as an equal value
C18_RoundTripEveryMessage == RoundTripped => ReadBackEqual

\* C18: every request, and every response whose payload is at most 1 MiB,
\* written by write_message is read back by read_message as an equal
\* value, an absent optional field staying absent and a present false
\* staying false; a response with a longer payload is written and then
\* turned down by read_message
C18_RoundTripWithinLimit ==
    RoundTripped =>
        IF ipc_stream.body.n <= MaxMessage
        THEN ReadBackEqual
        ELSE /\ ipc_call.from.T = "DaemonResponse"
             /\ ipc_call.result.kind = "Err"
             /\ ipc_call.result.err = "Message too large"

C18_Witness ==
    /\ RoundTripped
    /\ ipc_call.from.message.type = "UpdateConfig"
    /\ ipc_call.from.message.ai_blocking = Some(FALSE)
    /\ ipc_call.from.message.dns_blocking = None
    /\ ipc_call.result.kind = "Ok"
    /\ ipc_call.result.value.ai_blocking = Some(FALSE)
    /\ ipc_call.result.value.dns_blocking = None

\* the four prefix bytes declare more than 1,048,576
DeclaresOverLimit(head) ==
    \/ head[4] > 0
    \/ head[3] > 16
    \/ head[3] = 16 /\ (head[2] > 0 \/ head[1] > 0)

\* read_message has returned for a stream holding a whole length prefix
PrefixRead == ipc_call.pc = "read" /\ Len(ipc_stream.head) = 4

\* C19: read_message turns down a declared length over 1 MiB with an
\* error after taking the 4 prefix bytes only, and turns down no declared
\* length up to 1 MiB for its size: it goes on to read that many bytes
C19_LengthLimit ==
    PrefixRead =>
        IF DeclaresOverLimit(ipc_stream.head)
        THEN /\ ipc_call.result.kind = "Err"
             /\ ipc_call.result.err = "Message too large"
             /\ ipc_call.result.consumed = 4
        ELSE /\ ipc_call.result.kind = "Err"
                    => ipc_call.result.err # "Message too large"
             /\ ipc_call.result.consumed =
                    4 + IF ipc_stream.body.n + ipc_stream.rest
                               < AsUsize(from_le_bytes(ipc_stream.head))
                        THEN ipc_stream.body.n + ipc_stream.rest
                        ELSE AsUsize(from_le_bytes(ipc_stream.head))

C19_Witness ==
    /\ PrefixRead
    /\ ipc_stream.head = <<1, 0, 16, 0>>
    /\ ipc_stream.body.n > 0
    /\ ipc_call.result.kind = "Err"
    /\ ipc_call.result.consumed = 4

\* write_message has returned and nothing was read yet
Written == ipc_call.pc = "written"

\* C32: every frame emitted by write_message carries a length prefix equal
\* to the payload's byte count and a payload of at most 1 MiB, so that
\* read_message accepts every frame the writer produces
C32_WriterStaysWithinLimit ==
    Written =>
        /\ AsUsize(from_le_bytes(ipc_stream.head)) = ipc_stream.body.n
        /\ ipc_stream.body.n <= MaxMessage
        /\ ReadMessage(ipc_stream, ipc_call.T).kind = "Ok"

\* the i-th read_message call took the i-th frame written, whole
OwnFrame(i) ==
    LET rd == ipc_pipe.reads[i]
        frame == ipc_pipe.frames[rd.frame]
    IN  /\ i <= Len(ipc_pipe.frames)
        /\ rd.frame = i
        /\ rd.off = 0
        /\ rd.result.consumed = 4 + frame.stream.body.n
        /\ rd.T = frame.T =>
              /\ rd.result.kind = "Ok"
              /\ rd.result.value = frame.message

\* C38: messages written back to back with write_message are read back by
\* successive read_message calls complete and in the same order, each call
\* consuming exactly its own frame of 4 + N bytes, also when a frame's
\* payload fails to decode
C38_EachReadTakesOwnFrame ==
    \A i \in 1..Len(ipc_pipe.reads) : OwnFrame(i)

\* the same for the reads that follow frames of at most 1 MiB only
EachReadTakesOwnFrameWithinLimit ==
    \A i \in 1..Len(ipc_pipe.reads) :
        (\A k \in 1..ipc_pipe.reads[i].frame :
            ipc_pipe.frames[k].stream.body.n <= MaxMessage) => OwnFrame(i)

(***************************************************************************)
(* Properties of the password-protected uninstall                          *)
(***************************************************************************)
\* the call has got past the password check
PastCheck == uninstall.pc \in {"verified", "disabled"}

\* the call is under way or has returned
UninstallCalled == uninstall.pc # "idle"

\* the password typed is not the parent's
WrongPassword == UninstallCalled /\ uninstall.password # uninstall.parent

\* crypto::verify_password compared the password with the stored hash
Compared ==
    /\ UninstallCalled
    /\ uninstall.store.state = "loaded"
    /\ uninstall.store.password_hash # UnparsableHash

\* neither disable_protection nor the platform uninstall has run
NeitherStep ==
    /\ uninstall.steps = <<>>
    /\ uninstall.installed
    /\ uninstall.pc = "returned"

\* C33: uninstall_with_password disables protection and runs the platform
\* uninstall only after the supplied password has verified successfully
\* (the stored hash was read and it is the hash of the password), the
\* uninstall only after the protection was disabled; with a wrong password
\* (the comparison was made and failed) it returns AccessDenied having
\* performed neither step, and when the comparison could not be made it
\* returns ConfigError having performed neither step
C33_UninstallOnlyAfterVerified ==
    UninstallCalled =>
        /\ (PastCheck \/ uninstall.steps # <<>> \/ ~uninstall.installed)
              => /\ Compared
                 /\ uninstall.password = uninstall.parent
        /\ ~uninstall.installed
              => uninstall.steps
                    = <<"disable_protection",
                        "uninstall_" \o uninstall.platform>>
        /\ (WrongPassword /\ Compared)
              => /\ uninstall.result = SecErr("AccessDenied")
                 /\ NeitherStep
        /\ ~Compared
              => /\ uninstall.result = SecErr("ConfigError")
                 /\ NeitherStep

C33_Witness ==
    /\ WrongPassword
    /\ Compared
    /\ uninstall.password = "child"
    /\ uninstall.protected
    /\ uninstall.result = SecErr("AccessDenied")

(***************************************************************************)
(* Properties of process termination                                       *)
(***************************************************************************)
\* the requests terminate_process made
TermEvents == { term.events[i] : i \in 1..Len(term.events) }

\* C20: on every platform, a call that returns has made no force-stop
\* request without a graceful request delivered before it, and after a
\* delivered graceful request it has waited, re-checked liveness, and made
\* a force-stop request exactly when the process was alive at the re-check
C20_GracefulWaitCheckForce ==
    term.pc = "returned" =>
        /\ "force" \in TermEvents => term.events[1] = "graceful"
        /\ "graceful" \in TermEvents =>
              /\ Len(term.events) >= 3
              /\ SubSeq(term.events, 1, 3) = <<"graceful", "wait", "check">>
              /\ ("force" \in TermEvents) <=> term.alive_at_check

\* C21: on every platform, a call on a pid that named no process when the
\* call was made returns NotFound, and a call on a process the caller may
\* not signal returns AccessDenied
C21_NotFoundAndAccessDenied ==
    term.pc = "returned" =>
        /\ ~term.at_call.alive => term.result = "NotFound"
        /\ (term.at_call.alive /\ ~term.at_call.permitted)
              => term.result = "AccessDenied"

(***************************************************************************)
(* Properties of the firewall orchestrator                                 *)
(***************************************************************************)
Tools == {"iptables", "ip6tables"}

\* how often a rule occurs in a chain
Count(rules, rule) == Cardinality({ i \in 1..Len(rules) : rules[i] = rule })

\* the rules of a chain other than the jump to the managed chain
RECURSIVE NotJump(_)
NotJump(rules) ==
    IF rules = <<>> THEN <<>>
    ELSE (IF Head(rules) = JumpRule THEN <<>> ELSE <<Head(rules)>>)
             \o NotJump(Tail(rules))

\* the last operation ran its script
Ran(kinds) == fw_call.kind \in kinds /\ fw_call.outcome = "ran"

\* C22: after any number of operations, whenever the last one is an
\* apply operation (full or DoH only, elevated or direct) that ran its
\* script, the OUTPUT chain of each address family holds exactly one jump
\* to the managed chain
C22_OneJumpPerFamily ==
    Ran({"apply_full", "apply_doh"}) =>
        \A tool \in Tools : Count(fw[tool].OUTPUT, JumpRule) = 1

C22_Witness ==
    /\ Ran({"apply_full", "apply_doh"})
    /\ fw_call.prev_kind \in {"apply_full", "apply_doh"}
    /\ fw_call.prev_outcome = "ran"
    /\ fw_n = MaxFwOps
    /\ \A tool \in Tools : Count(fw[tool].OUTPUT, JumpRule) = 1

\* C23: an apply operation that ran its script has changed the built-in
\* OUTPUT chain of each family by the jump to the managed chain at most:
\* every other rule it added is in the managed chain
C23_RulesOnlyInManagedChain ==
    Ran({"apply_full", "apply_doh"}) =>
        \A tool \in Tools :
            NotJump(fw[tool].OUTPUT) = NotJump(fw_call.before[tool].OUTPUT)

\* C24: after remove_network_blocking has run its script, in each family
\* the managed chain is gone, OUTPUT holds no jump to it, and no DROP rule
\* is left in any chain
C24_RemoveLeavesNothing ==
    Ran({"remove_full"}) =>
        \A tool \in Tools :
            /\ ~fw[tool].exists
            /\ Count(fw[tool].OUTPUT, JumpRule) = 0
            /\ \A i \in 1..Len(fw[tool].OUTPUT) :
                  fw[tool].OUTPUT[i].j # "DROP"

\* C25: an elevated operation returns an error exactly when pkexec is
\* absent, cannot be spawned, or the authorization is cancelled or
\* refused; commands that fail inside the script do not make it fail
C25_ErrorIffMechanismFailed ==
    (fw_call.op # "none" /\ fw_call.elevated) =>
        (fw_call.result = "Err" <=> fw_call.outcome # "ran")

\* C30: an apply_network_blocking that follows an apply_network_blocking,
\* both having run their scripts, leaves every chain as it found it
C30_ApplyIdempotent ==
    (Ran({"apply_full"}) /\ fw_call.prev_kind = "apply_full"
         /\ fw_call.prev_outcome = "ran")
        => fw = fw_call.before

\* the linux call has sent its signals
Signalled == term.pc # "idle" /\ "sigterm" \in DOMAIN term

\* C34: on Linux, terminate_process(pid) sends signals to at most the one
\* process whose id equals pid, for every 32-bit unsigned pid value,
\* including 0 and values of 2^31 or more
C34_SignalsOnlyThePid ==
    Signalled =>
        \A p \in term.sigterm \cup term.sigkill :
            term.pid = U32(0, p)

\* C36: on Linux, terminate_process returns Ok whenever its graceful-stop
\* signal was delivered, including when the process exits by itself
\* between the liveness re-check and the force-stop
C36_OkWhenGracefulDelivered ==
    (term.pc = "returned" /\ "events" \in DOMAIN term
        /\ term.platform = "linux" /\ "graceful" \in TermEvents)
            => term.result = "Ok"

\* no sh process is running a firewall script
AllShellsDone == \A r \in Runners : ~fw_sh[r].busy

\* C31: when two apply operations run concurrently (the client's elevated
\* path and the daemon's direct path), the outbound path still ends up with
\* exactly one jump to the managed chain per address family.
C31_OneJumpWhenConcurrent ==
    (AllShellsDone /\ Ran({"apply_full"}))
        => \A tool \in Tools : Count(fw[tool].OUTPUT, JumpRule) = 1

(***************************************************************************)
(* Properties of the proxy's start, stop and locks                         *)
(***************************************************************************)
\* C35: a stop() that completes after start() has been invoked is never
\* lost: when it ran before start() had set the running flag, the serve
\* loop exits at its first flag check, having served no datagram
C35_EarlyStopNotLost ==
    stopped_early =>
        /\ srv.pc \in {"set_running", "check", "returned"}
        /\ io = NoIo

\* the serve task waits for, or holds, the read guard of blocked_domains
WantsBlocked == srv.pc = "read_blocked"
HoldsBlocked == srv.pc = "read_allowed"

\* C39: no interleaving of the serve loop's should_block with concurrent
\* update_blocked, update_allowed and stop calls deadlocks: every
\* acquisition of the lock of the blocked set (by should_block and by
\* update_blocked), of the allowed set (by should_block, holding the
\* blocked set, and by update_allowed) and of the running flag (by start
\* and by the loop head) is granted in the end
C39_EveryLockGranted ==
    /\ WantsBlocked ~> HoldsBlocked
    /\ HoldsBlocked ~> (srv.pc \in {"nxdomain", "forward"})
    /\ ("blocked" \in upd.todo) ~> ("blocked" \notin upd.todo)
    /\ ("allowed" \in upd.todo) ~> ("allowed" \notin upd.todo)
    /\ (srv.pc = "set_running") ~> (srv.pc = "check")
    /\ (srv.pc = "check") ~> (srv.pc \in {"recv", "returned"})

\* should_block holds its read guard, update_blocked is queued behind it
\* and stop has cleared the flag
C39_Witness ==
    /\ HoldsBlocked
    /\ blocked_readers > 0
    /\ "waiting" \in upd.todo
    /\ "allowed" \in upd.todo
    /\ ~running

====
